---------------------------- MODULE Spec2Model ----------------------------
(***************************************************************************)
(* A model of the template analysis core of handlebars-editor:             *)
(*   - src/core/tokenizer.ts : tokenize (five stages)                      *)
(*   - src/core/parser.ts    : extract (expression segmentation with       *)
(*                             resynchronisation, variable extraction)     *)
(* A template is a sequence of characters (one-character strings).  The    *)
(* scanner both files drive (Handlebars' Parser.lexer) is modelled rule by *)
(* rule, in rule order, over the characters the inputs below are built     *)
(* from; it reports (line, column) locations as the scanner does.          *)
(***************************************************************************)
EXTENDS Integers, Sequences, FiniteSets, TLC

(***************************************************************************)
(* Characters and strings                                                  *)
(***************************************************************************)
NL == "\n"
CR == "\r"

\* The value of an absent (undefined / null) string field.
Undefined == <<"undefined">>

MinOf(S) == CHOOSE x \in S : \A y \in S : x <= y
MaxOf(S) == CHOOSE x \in S : \A y \in S : x >= y

\* s.slice(from, to) with 0-based offsets, clamped as JavaScript clamps them.
Slice(s, from, to) ==
  LET f == IF from > Len(s) THEN Len(s) ELSE from
      t == IF to > Len(s) THEN Len(s) ELSE to
  IN  IF t <= f THEN <<>> ELSE SubSeq(s, f + 1, t)

SliceFrom(s, from) == Slice(s, from, Len(s))

\* The character at 0-based offset pos, "" past the end.
At(s, pos) == IF pos >= 0 /\ pos < Len(s) THEN s[pos + 1] ELSE ""

\* Does p occur in s at 0-based offset pos?
HasAt(s, pos, p) ==
  /\ pos >= 0
  /\ pos + Len(p) <= Len(s)
  /\ \A k \in 1..Len(p) : s[pos + k] = p[k]

\* s.indexOf(p, pos): the first offset >= pos where p occurs, -1 if none.
IndexFrom(s, pos, p) ==
  LET hits == {q \in pos..(Len(s) - Len(p)) : HasAt(s, q, p)}
  IN  IF hits = {} THEN -1 ELSE MinOf(hits)

RECURSIVE Flatten(_)
Flatten(ss) == IF ss = <<>> THEN <<>> ELSE Head(ss) \o Flatten(Tail(ss))

(***************************************************************************)
(* The scanner: character classes                                          *)
(***************************************************************************)
WhiteSpace == {" ", "\t", NL, CR}

\* ID is the inverse of these control characters (and of white space).  The
\* grave accent, a control character too, occurs in no input of this model.
ControlChars ==
  {"!", "\"", "#", "%", "&", "'", "(", ")", "*", "+", ",", ".", "/",
   ";", "<", "=", ">", "@", "[", "\\", "]", "^", "{", "|", "}", "~"}

IsIdChar(c) == c # "" /\ c \notin WhiteSpace /\ c \notin ControlChars

Digits == {"0", "1", "2", "3", "4", "5", "6", "7", "8", "9"}

\* LOOKAHEAD [=~}\s\/.)|] and LITERAL_LOOKAHEAD [~}\s)]
IsLookahead(c) == c \in WhiteSpace \cup {"=", "~", "}", "/", ".", ")", "|"}
IsLiteralLookahead(c) == c \in WhiteSpace \cup {"~", "}", ")"}

\* The end of the longest run of characters satisfying a class, from pos.
RECURSIVE SkipWs(_, _)
SkipWs(s, pos) == IF At(s, pos) \in WhiteSpace THEN SkipWs(s, pos + 1) ELSE pos

RECURSIVE SkipId(_, _)
SkipId(s, pos) == IF IsIdChar(At(s, pos)) THEN SkipId(s, pos + 1) ELSE pos

RECURSIVE SkipDigits(_, _)
SkipDigits(s, pos) == IF At(s, pos) \in Digits THEN SkipDigits(s, pos + 1) ELSE pos

\* An optional strip marker "~".
SkipStrip(s, pos) == IF At(s, pos) = "~" THEN pos + 1 ELSE pos


(***************************************************************************)
(* The scanner: one match (one call of the generated next())               *)
(*                                                                         *)
(* A match is [kind, name, to, stack, text]: kind "token" returns terminal *)
(* `name`, kind "skip" matches without returning one (the scanner then     *)
(* matches again), kind "eof" is the end-of-input sentinel lexer.EOF and   *)
(* kind "error" the lexical error the scanner throws.  `to` is the offset  *)
(* the scanner input stands at after the match.  The first rule that       *)
(* matches wins.  Inputs hold no backslash and no NUL, so the rules of the *)
(* escaped-mustache condition never apply and are left out.                *)
(***************************************************************************)
PopState(stack) ==
  IF Len(stack) > 1 THEN SubSeq(stack, 1, Len(stack) - 1) ELSE stack

Begin(stack, cond) == Append(stack, cond)

TopState(stack) == stack[Len(stack)]

Tok(name, s, from, to, stack) ==
  [kind |-> "token", name |-> name, to |-> to, stack |-> stack,
   text |-> Slice(s, from, to)]

TokText(name, to, stack, text) ==
  [kind |-> "token", name |-> name, to |-> to, stack |-> stack, text |-> text]

SkipTo(to, stack) ==
  [kind |-> "skip", name |-> "", to |-> to, stack |-> stack, text |-> <<>>]

EofMatch(p, stack) ==
  [kind |-> "eof", name |-> "", to |-> p, stack |-> stack, text |-> <<>>]

ErrorMatch(p, stack) ==
  [kind |-> "error", name |-> "", to |-> p, stack |-> stack, text |-> <<>>]

\* Condition INITIAL:  [^\x00]*?/("{{")  then  [^\x00]+  then <<EOF>>.
InitialRule(s, p, stack) ==
  LET open == IndexFrom(s, p, <<"{", "{">>)
  IN  IF open # -1
        THEN IF open > p THEN Tok("CONTENT", s, p, open, Begin(stack, "mu"))
                         ELSE SkipTo(p, Begin(stack, "mu"))
      ELSE IF p < Len(s) THEN Tok("CONTENT", s, p, Len(s), stack)
      ELSE TokText("EOF", p, stack, <<>>)

\* Condition com:  [\s\S]*?"--"{RIGHT_STRIP}?"}}"
ComRule(s, p, stack) ==
  LET ends == {q + 4 : q \in {q \in p..Len(s) : HasAt(s, q, <<"-", "-", "}", "}">>)}}
              \cup
              {q + 5 : q \in {q \in p..Len(s) : HasAt(s, q, <<"-", "-", "~", "}", "}">>)}}
  IN  IF ends # {} THEN Tok("COMMENT", s, p, MinOf(ends), PopState(stack))
      ELSE IF p >= Len(s) THEN EofMatch(p, stack)
      ELSE ErrorMatch(p, stack)

\* Condition raw:  "{{{{"/[^/]   "{{{{/"ID/[=}\s\/.]"}}}}"   [^\x00]+?/("{{{{")
RawRule(s, p, stack) ==
  LET four == <<"{", "{", "{", "{">>
      idEnd == SkipId(s, p + 5)
      nextOpen == IndexFrom(s, p + 1, four)
  IN  IF HasAt(s, p, four) /\ At(s, p + 4) \notin {"/", ""}
        THEN Tok("CONTENT", s, p, p + 4, Begin(stack, "raw"))
      ELSE IF /\ HasAt(s, p, four) /\ At(s, p + 4) = "/"
              /\ idEnd > p + 5
              /\ HasAt(s, idEnd, <<"}", "}", "}", "}">>)
        THEN IF TopState(PopState(stack)) = "raw"
               THEN Tok("CONTENT", s, p, idEnd + 4, PopState(stack))
               ELSE TokText("END_RAW_BLOCK", idEnd + 4, PopState(stack),
                            Slice(s, p + 5, idEnd))
      ELSE IF p < Len(s) /\ nextOpen # -1
        THEN Tok("CONTENT", s, p, nextOpen, stack)
      ELSE IF p >= Len(s) THEN EofMatch(p, stack)
      ELSE ErrorMatch(p, stack)

\* Condition mu, the rules that begin with "{{", in rule order.
MuOpenRule(s, p, stack) ==
  LET t == SkipStrip(s, p + 2)
      c == At(s, t)
      e == SkipWs(s, t)
      isElse == HasAt(s, e, <<"e", "l", "s", "e">>)
      caretClose == SkipStrip(s, SkipWs(s, t + 1))
      elseClose == SkipStrip(s, SkipWs(s, e + 4))
      commentEnd == IndexFrom(s, t + 1, <<"}", "}">>)
  IN  IF HasAt(s, p, <<"{", "{", "{", "{">>)
        THEN Tok("OPEN_RAW_BLOCK", s, p, p + 4, stack)
      ELSE IF c = ">" THEN Tok("OPEN_PARTIAL", s, p, t + 1, stack)
      ELSE IF c = "#" /\ At(s, t + 1) = ">"
        THEN Tok("OPEN_PARTIAL_BLOCK", s, p, t + 2, stack)
      ELSE IF c = "#"
        THEN Tok("OPEN_BLOCK", s, p,
                 IF At(s, t + 1) = "*" THEN t + 2 ELSE t + 1, stack)
      ELSE IF c = "/" THEN Tok("OPEN_ENDBLOCK", s, p, t + 1, stack)
      ELSE IF c = "^" /\ HasAt(s, caretClose, <<"}", "}">>)
        THEN Tok("INVERSE", s, p, caretClose + 2, PopState(stack))
      ELSE IF isElse /\ HasAt(s, elseClose, <<"}", "}">>)
        THEN Tok("INVERSE", s, p, elseClose + 2, PopState(stack))
      ELSE IF c = "^" THEN Tok("OPEN_INVERSE", s, p, t + 1, stack)
      ELSE IF isElse THEN Tok("OPEN_INVERSE_CHAIN", s, p, e + 4, stack)
      ELSE IF c = "{" THEN Tok("OPEN_UNESCAPED", s, p, t + 1, stack)
      ELSE IF c = "&" THEN Tok("OPEN", s, p, t + 1, stack)
      ELSE IF HasAt(s, t, <<"!", "-", "-">>)
        \* unput(yytext): the input and the location go back to p.
        THEN SkipTo(p, Begin(PopState(stack), "com"))
      ELSE IF c = "!" /\ commentEnd # -1
        THEN Tok("COMMENT", s, p, commentEnd + 2, PopState(stack))
      ELSE Tok("OPEN", s, p, IF c = "*" THEN t + 1 ELSE t, stack)

\* Condition mu, the literal rules: strings, booleans, null, undefined, numbers.
Word(s, p, w) == HasAt(s, p, w) /\ IsLiteralLookahead(At(s, p + Len(w)))

NumberEnd(s, p) ==
  LET d0 == IF At(s, p) = "-" THEN p + 1 ELSE p
      d1 == SkipDigits(s, d0)
      d2 == SkipDigits(s, d1 + 1)
  IN  IF d1 = d0 THEN -1
      ELSE IF At(s, d1) = "." /\ d2 > d1 + 1 /\ IsLiteralLookahead(At(s, d2)) THEN d2
      ELSE IF IsLiteralLookahead(At(s, d1)) THEN d1
      ELSE -1

StringEnd(s, p, quote) ==
  IF At(s, p) # quote THEN -1
  ELSE LET close == IndexFrom(s, p + 1, <<quote>>)
       IN  IF close = -1 THEN -1 ELSE close + 1

\* Condition mu, every rule, in rule order.
MuRule(s, p, stack) ==
  LET c == At(s, p)
      idEnd == SkipId(s, p)
      asBar == SkipWs(s, p + 2)
      segEnd == IndexFrom(s, p + 1, <<"]">>)
      strip == SkipStrip(s, p)
  IN  IF c = "(" THEN Tok("OPEN_SEXPR", s, p, p + 1, stack)
      ELSE IF c = ")" THEN Tok("CLOSE_SEXPR", s, p, p + 1, stack)
      ELSE IF HasAt(s, p, <<"}", "}", "}", "}">>)
        THEN Tok("CLOSE_RAW_BLOCK", s, p, p + 4, Begin(PopState(stack), "raw"))
      ELSE IF HasAt(s, p, <<"{", "{">>) THEN MuOpenRule(s, p, stack)
      ELSE IF c = "=" THEN Tok("EQUALS", s, p, p + 1, stack)
      ELSE IF HasAt(s, p, <<".", ".">>) THEN Tok("ID", s, p, p + 2, stack)
      ELSE IF c = "." /\ IsLookahead(At(s, p + 1)) THEN Tok("ID", s, p, p + 1, stack)
      ELSE IF c \in {"/", "."} THEN Tok("SEP", s, p, p + 1, stack)
      ELSE IF c \in WhiteSpace THEN SkipTo(SkipWs(s, p), stack)
      ELSE IF c = "}" /\ HasAt(s, SkipStrip(s, p + 1), <<"}", "}">>)
        THEN Tok("CLOSE_UNESCAPED", s, p, SkipStrip(s, p + 1) + 2, PopState(stack))
      ELSE IF HasAt(s, strip, <<"}", "}">>)
        THEN Tok("CLOSE", s, p, strip + 2, PopState(stack))
      ELSE IF StringEnd(s, p, "\"") # -1
        THEN TokText("STRING", StringEnd(s, p, "\""), stack,
                     Slice(s, p + 1, StringEnd(s, p, "\"") - 1))
      ELSE IF StringEnd(s, p, "'") # -1
        THEN TokText("STRING", StringEnd(s, p, "'"), stack,
                     Slice(s, p + 1, StringEnd(s, p, "'") - 1))
      ELSE IF c = "@" THEN Tok("DATA", s, p, p + 1, stack)
      ELSE IF Word(s, p, <<"t", "r", "u", "e">>) THEN Tok("BOOLEAN", s, p, p + 4, stack)
      ELSE IF Word(s, p, <<"f", "a", "l", "s", "e">>)
        THEN Tok("BOOLEAN", s, p, p + 5, stack)
      ELSE IF Word(s, p, <<"u", "n", "d", "e", "f", "i", "n", "e", "d">>)
        THEN Tok("UNDEFINED", s, p, p + 9, stack)
      ELSE IF Word(s, p, <<"n", "u", "l", "l">>) THEN Tok("NULL", s, p, p + 4, stack)
      ELSE IF NumberEnd(s, p) # -1 THEN Tok("NUMBER", s, p, NumberEnd(s, p), stack)
      ELSE IF HasAt(s, p, <<"a", "s">>) /\ asBar > p + 2 /\ At(s, asBar) = "|"
        THEN Tok("OPEN_BLOCK_PARAMS", s, p, asBar + 1, stack)
      ELSE IF c = "|" THEN Tok("CLOSE_BLOCK_PARAMS", s, p, p + 1, stack)
      ELSE IF idEnd > p /\ IsLookahead(At(s, idEnd)) THEN Tok("ID", s, p, idEnd, stack)
      ELSE IF c = "[" /\ segEnd # -1 THEN Tok("ID", s, p, segEnd + 1, stack)
      ELSE IF p < Len(s) THEN Tok("INVALID", s, p, p + 1, stack)
      ELSE TokText("EOF", p, stack, <<>>)

\* One match in the scanner's current condition.
Match(s, p, stack) ==
  LET cond == TopState(stack)
  IN  IF cond = "INITIAL" THEN InitialRule(s, p, stack)
      ELSE IF cond = "mu" THEN MuRule(s, p, stack)
      ELSE IF cond = "com" THEN ComRule(s, p, stack)
      ELSE RawRule(s, p, stack)

(***************************************************************************)
(* The scanner: setInput, lex and the locations it reports                 *)
(*                                                                         *)
(* The scanner state is [pos, line, col, stack, done]: the offset its      *)
(* input stands at, yylloc.last_line and yylloc.last_column, the condition *)
(* stack, and the flag set once the input is exhausted.                    *)
(***************************************************************************)
SetInput ==
  [pos |-> 0, line |-> 1, col |-> 0, stack |-> <<"INITIAL">>, done |-> FALSE]

\* lexer.setInput(input) on a scanner that earlier calls left in state lx:
\* every field is assigned anew, nothing of lx survives.
setInput(lx) == SetInput

\* Line breaks of the matched text m as the scanner counts them: \r\n, \r or \n.
LineBreaks(m) ==
  Cardinality({i \in 1..Len(m) :
                 \/ m[i] = CR
                 \/ m[i] = NL /\ (i = 1 \/ m[i - 1] # CR)})

\* yylloc.last_column after matching m from column col.
LastColumn(m, col) ==
  LET brk == {i \in 1..Len(m) : m[i] \in {NL, CR}}
  IN  IF brk = {} THEN col + Len(m) ELSE Len(m) - MaxOf(brk)

\* lex(): match until a terminal is returned, the input ends or no rule
\* matches.  The result carries the terminal, its text and location, and the
\* scanner state after the call.
RECURSIVE Lex(_, _)
Lex(s, lx) ==
  LET After(m, matched) ==
        [pos |-> m.to,
         line |-> lx.line + LineBreaks(matched),
         col |-> LastColumn(matched, lx.col),
         stack |-> m.stack,
         done |-> lx.pos >= Len(s) /\ m.to >= Len(s)]
      Returned(m, after) ==
        IF m.kind = "skip" THEN Lex(s, after)
        ELSE IF m.kind = "token"
          THEN [kind |-> "token", name |-> m.name, text |-> m.text,
                first_line |-> lx.line, first_column |-> lx.col,
                last_line |-> after.line, last_column |-> after.col,
                from |-> lx.pos, lx |-> after]
        ELSE [kind |-> m.kind, name |-> "", text |-> <<>>,
              first_line |-> lx.line, first_column |-> lx.col,
              last_line |-> lx.line, last_column |-> lx.col,
              lx |-> [lx EXCEPT !.done = (m.kind = "eof")]]
      Matched(m) == Returned(m, After(m, Slice(s, lx.pos, m.to)))
  IN  IF lx.done
        THEN [kind |-> "eof", name |-> "", text |-> <<>>,
              first_line |-> lx.line, first_column |-> lx.col,
              last_line |-> lx.line, last_column |-> lx.col, lx |-> lx]
        ELSE Matched(Match(s, lx.pos, lx.stack))

\* The for-loop both callers run: lex() until lexer.EOF or a throw.  The
\* result is the terminals read, in order, each with the offsets the scanner
\* stood at before and after its match, whether the loop ended in a throw, and the scanner
\* state the loop leaves.
RECURSIVE LexLoop(_, _, _)
LexLoop(s, lx, acc) ==
  LET Returned(r) ==
        IF r.kind = "token"
          THEN LexLoop(s, r.lx,
                       Append(acc, [name |-> r.name, text |-> r.text,
                                    first_line |-> r.first_line,
                                    first_column |-> r.first_column,
                                    last_line |-> r.last_line,
                                    last_column |-> r.last_column,
                                    from |-> r.from,
                                    offset |-> r.lx.pos]))
          ELSE [tokens |-> acc, failed |-> (r.kind = "error"), lx |-> r.lx]
  IN  Returned(Lex(s, lx))

LexAll(s) == LexLoop(s, SetInput, <<>>)

(***************************************************************************)
(* tokenizer.ts, stage 1: raw tokens with absolute offsets                 *)
(***************************************************************************)
\* content.split('\n'), kept as the lengths of the lines.
RECURSIVE SplitLines(_, _)
SplitLines(s, from) ==
  LET nl == IndexFrom(s, from, <<NL>>)
  IN  IF nl = -1 THEN <<Len(s) - from>>
      ELSE <<nl - from>> \o SplitLines(s, nl + 1)

RECURSIVE SumLines(_, _)
SumLines(lines, n) ==
  IF n = 0 THEN 0 ELSE SumLines(lines, n - 1) + lines[n] + 1

locToOffset(lines, line, column) ==
  LET n == IF line - 1 < Len(lines) THEN line - 1 ELSE Len(lines)
  IN  SumLines(lines, IF n < 0 THEN 0 ELSE n) + column

RawToken(lines, t) ==
  [type |-> t.name, text |-> t.text,
   start |-> locToOffset(lines, t.first_line, t.first_column),
   end |-> locToOffset(lines, t.last_line, t.last_column)]

lexerTokenize(content) ==
  LET lines == SplitLines(content, 0)
      lexed == LexAll(content).tokens
  IN  [i \in 1..Len(lexed) |-> RawToken(lines, lexed[i])]

(***************************************************************************)
(* tokenizer.ts, stage 2: normalize                                        *)
(***************************************************************************)
normalizeToken(token) ==
  IF token.type = "ID" /\ token.text = <<".">> THEN [token EXCEPT !.type = "SEP"]
  ELSE IF token.type = "ID" /\ token.text = <<"=">>
    THEN [token EXCEPT !.type = "EQUALS"]
  ELSE token

normalizeTokens(tokens) == [i \in 1..Len(tokens) |-> normalizeToken(tokens[i])]

(***************************************************************************)
(* tokenizer.ts, stage 3: annotate                                         *)
(***************************************************************************)
BLOCK_OPENERS == {"OPEN_BLOCK", "OPEN_INVERSE", "OPEN_INVERSE_CHAIN", "OPEN_ENDBLOCK"}
MUSTACHE_OPENERS == {"OPEN", "OPEN_UNESCAPED"}
PARTIAL_OPENERS == {"OPEN_PARTIAL", "OPEN_PARTIAL_BLOCK"}
EXPRESSION_OPENERS == BLOCK_OPENERS \cup MUSTACHE_OPENERS \cup PARTIAL_OPENERS
EXPRESSION_CLOSERS == {"CLOSE", "CLOSE_UNESCAPED", "CLOSE_RAW_BLOCK", "END_RAW_BLOCK"}
ARGUMENT_TYPES ==
  {"ID", "STRING", "NUMBER", "BOOLEAN", "DATA", "OPEN_SEXPR", "UNDEFINED", "NULL"}

\* tokens[i]?.type with the 1-based index i; "undefined" outside the list.
TypeAt(tokens, i) ==
  IF i >= 1 /\ i <= Len(tokens) THEN tokens[i].type ELSE "undefined"

\* The pass's state before token i is st = [expressionType, isInBlockParams,
\* helperSeen, pathDepth]; result holds the annotated tokens 1..i-1.
AnnotateOne(tokens, i, st, result) ==
  LET type == tokens[i].type
      prevType == TypeAt(tokens, i - 1)
      expressionType ==
        IF type \in EXPRESSION_OPENERS
          THEN IF type \in BLOCK_OPENERS
                 THEN IF type = "OPEN_ENDBLOCK" THEN "block-close" ELSE "block-open"
               ELSE IF type \in PARTIAL_OPENERS THEN "partial"
               ELSE "mustache"
        ELSE IF type \in EXPRESSION_CLOSERS THEN "null"
        ELSE st.expressionType
      boundary == type \in EXPRESSION_OPENERS \cup EXPRESSION_CLOSERS
      helperSeen0 == IF boundary THEN FALSE ELSE st.helperSeen
      pathDepth0 == IF boundary THEN 0 ELSE st.pathDepth
      isInBlockParams ==
        IF type = "OPEN_BLOCK_PARAMS" THEN TRUE
        ELSE IF type = "CLOSE_BLOCK_PARAMS" THEN FALSE
        ELSE st.isInBlockParams
      pathDepth ==
        IF type = "SEP" THEN pathDepth0 + 1
        ELSE IF type = "ID" /\ prevType # "SEP" /\ prevType # "DATA" THEN 0
        ELSE pathDepth0
      roots == {j \in 1..(i - 1) :
                  /\ tokens[j].type = "ID"
                  /\ TypeAt(tokens, j - 1) \notin {"SEP", "DATA"}}
      pathRootAfterHelper ==
        IF type # "ID" THEN FALSE
        ELSE IF pathDepth = 0 THEN helperSeen0
        ELSE IF roots = {} THEN FALSE
        ELSE result[MaxOf(roots)].context.pathRootAfterHelper
      helperSeen ==
        IF /\ type = "ID" /\ pathDepth = 0 /\ ~isInBlockParams
           /\ prevType # "EQUALS" /\ prevType # "DATA"
          THEN TRUE ELSE helperSeen0
  IN  [token |-> [type |-> type, text |-> tokens[i].text,
                  start |-> tokens[i].start, end |-> tokens[i].end,
                  context |-> [type |-> expressionType,
                               isInBlockParams |-> isInBlockParams,
                               pathRootAfterHelper |-> pathRootAfterHelper]],
       st |-> [expressionType |-> expressionType,
               isInBlockParams |-> isInBlockParams,
               helperSeen |-> helperSeen, pathDepth |-> pathDepth]]

RECURSIVE AnnotateFrom(_, _, _, _)
AnnotateFrom(tokens, i, st, result) ==
  IF i > Len(tokens) THEN result
  ELSE LET one == AnnotateOne(tokens, i, st, result)
       IN  AnnotateFrom(tokens, i + 1, one.st, Append(result, one.token))

annotateContext(tokens) ==
  AnnotateFrom(tokens, 1,
               [expressionType |-> "null", isInBlockParams |-> FALSE,
                helperSeen |-> FALSE, pathDepth |-> 0],
               <<>>)

(***************************************************************************)
(* tokenizer.ts, stage 4: classify                                         *)
(***************************************************************************)
TOKEN_MAP(type) ==
  IF type \in {"CONTENT"} THEN "text"
  ELSE IF type = "COMMENT" THEN "comment"
  ELSE IF type \in {"OPEN", "CLOSE", "OPEN_UNESCAPED", "CLOSE_UNESCAPED",
                    "OPEN_RAW_BLOCK", "CLOSE_RAW_BLOCK", "END_RAW_BLOCK",
                    "OPEN_BLOCK", "OPEN_INVERSE", "OPEN_INVERSE_CHAIN",
                    "OPEN_ENDBLOCK", "OPEN_PARTIAL", "OPEN_PARTIAL_BLOCK",
                    "SEP", "EQUALS"} THEN "brace"
  ELSE IF type \in {"OPEN_SEXPR", "CLOSE_SEXPR"} THEN "subexpr-paren"
  ELSE IF type \in {"OPEN_BLOCK_PARAMS", "CLOSE_BLOCK_PARAMS", "INVERSE"}
    THEN "block-keyword"
  ELSE IF type = "ID" THEN "variable"
  ELSE IF type \in {"STRING", "NUMBER", "BOOLEAN", "UNDEFINED", "NULL"} THEN "literal"
  ELSE IF type = "DATA" THEN "data-var"
  ELSE "text"

\* classifyByExpressionContext with the subexpression rule tried first, in
\* every kind of expression.
classifyByExpressionContext_SexprFirst(token, prevType, nextType) ==
  IF prevType = "OPEN_SEXPR" THEN "helper"
  ELSE IF token.context.type \in {"block-open", "block-close"}
    THEN IF prevType \in BLOCK_OPENERS THEN "block-keyword" ELSE "helper-arg"
  ELSE IF token.context.type = "partial"
    THEN IF prevType \in PARTIAL_OPENERS THEN "helper" ELSE "helper-arg"
  ELSE IF token.context.type = "mustache"
    THEN IF prevType \in MUSTACHE_OPENERS
           THEN IF nextType = "SEP" THEN "variable"
                ELSE IF nextType \in ARGUMENT_TYPES THEN "helper"
                ELSE "variable"
         ELSE "helper-arg"
  ELSE "variable"

classifyByExpressionContext(token, prevType, nextType) ==
  IF token.context.type \in {"block-open", "block-close"}
    THEN IF prevType \in BLOCK_OPENERS THEN "block-keyword" ELSE "helper-arg"
  ELSE IF token.context.type = "partial"
    THEN IF prevType \in PARTIAL_OPENERS THEN "helper" ELSE "helper-arg"
  ELSE IF prevType = "OPEN_SEXPR" THEN "helper"
  ELSE IF token.context.type = "mustache"
    THEN IF prevType \in MUSTACHE_OPENERS
           THEN IF nextType = "SEP" THEN "variable"
                ELSE IF nextType \in ARGUMENT_TYPES THEN "helper"
                ELSE "variable"
         ELSE "helper-arg"
  ELSE "variable"

\* classifyIdToken with the hash-key rule tried before the block-parameter
\* rule.
classifyIdToken_HashKeyFirst(token, prevType, nextType) ==
  IF token.text = <<"t", "h", "i", "s">> THEN "data-var"
  ELSE IF nextType = "EQUALS" THEN "hash-key"
  ELSE IF token.context.isInBlockParams THEN "block-param"
  ELSE IF prevType = "EQUALS" THEN "hash-value"
  ELSE IF prevType = "DATA" THEN "data-var"
  ELSE IF prevType = "SEP"
    THEN IF token.context.pathRootAfterHelper THEN "helper-arg" ELSE "variable-path"
  ELSE classifyByExpressionContext(token, prevType, nextType)

classifyIdToken(token, prevType, nextType) ==
  IF token.text = <<"t", "h", "i", "s">> THEN "data-var"
  ELSE IF token.context.isInBlockParams THEN "block-param"
  ELSE IF nextType = "EQUALS" THEN "hash-key"
  ELSE IF prevType = "EQUALS" THEN "hash-value"
  ELSE IF prevType = "DATA" THEN "data-var"
  ELSE IF prevType = "SEP"
    THEN IF token.context.pathRootAfterHelper THEN "helper-arg" ELSE "variable-path"
  ELSE classifyByExpressionContext(token, prevType, nextType)

classifyTokens(tokens) ==
  [i \in 1..Len(tokens) |->
     [token |-> tokens[i],
      highlightType |->
        IF tokens[i].type = "ID"
          THEN classifyIdToken(tokens[i], TypeAt(tokens, i - 1), TypeAt(tokens, i + 1))
          ELSE TOKEN_MAP(tokens[i].type)]]

(***************************************************************************)
(* tokenizer.ts, stage 5: build the output                                 *)
(***************************************************************************)
HighlightToken(content, type, start, end) ==
  [type |-> type, value |-> Slice(content, start, end), start |-> start, end |-> end]

\* MergesData without the test that the two tokens are adjacent.
MergesData_AnyGap(classified, i) ==
  /\ classified[i].token.type = "DATA"
  /\ i + 1 <= Len(classified)
  /\ classified[i + 1].token.type = "ID"

\* Does the DATA token at index i merge with the token that follows it?
MergesData(classified, i) ==
  /\ classified[i].token.type = "DATA"
  /\ i + 1 <= Len(classified)
  /\ classified[i + 1].token.type = "ID"
  /\ classified[i + 1].token.start = classified[i].token.end

\* The loop of buildOutput from index i with output cursor pos.
RECURSIVE BuildFrom(_, _, _, _, _)
BuildFrom(content, classified, i, pos, result) ==
  IF i > Len(classified)
    THEN IF pos < Len(content)
           THEN Append(result, HighlightToken(content, "text", pos, Len(content)))
           ELSE result
  ELSE
    LET token == classified[i].token
        gap == IF token.start > pos
                 THEN Append(result, HighlightToken(content, "text", pos, token.start))
                 ELSE result
    IN  IF MergesData(classified, i)
          THEN BuildFrom(content, classified, i + 2, classified[i + 1].token.end,
                         Append(gap, HighlightToken(content, "data-var", token.start,
                                                    classified[i + 1].token.end)))
          ELSE BuildFrom(content, classified, i + 1, token.end,
                         Append(gap, HighlightToken(content, classified[i].highlightType,
                                                    token.start, token.end)))

buildOutput(content, classified) == BuildFrom(content, classified, 1, 0, <<>>)

\* The final filter of tokenize left out.
dropEmpty_KeepsAll(result) == result

dropEmpty(result) == SelectSeq(result, LAMBDA t : Len(t.value) > 0)

\* tokenize(content): the five stages and the final filter.
tokenize(content) ==
  IF content = <<>> THEN <<>>
  ELSE dropEmpty(buildOutput(content,
         classifyTokens(annotateContext(normalizeTokens(lexerTokenize(content))))))

(***************************************************************************)
(* parser.ts: constants and pure helpers                                   *)
(***************************************************************************)
IF_ == <<"i", "f">>
UNLESS == <<"u", "n", "l", "e", "s", "s">>
EACH == <<"e", "a", "c", "h">>
WITH_ == <<"w", "i", "t", "h">>
LOOKUP == <<"l", "o", "o", "k", "u", "p">>
LOG == <<"l", "o", "g">>
THIS == <<"t", "h", "i", "s">>
ELSE_ == <<"e", "l", "s", "e">>

BLOCK_HELPER_NAMES == {IF_, UNLESS, EACH, WITH_}
BUILT_IN_HELPERS == BLOCK_HELPER_NAMES \cup {LOOKUP, LOG, THIS, ELSE_}
CONTEXT_HELPERS == {EACH, WITH_}
ARGUMENT_TOKENS == {"ID", "STRING", "NUMBER", "BOOLEAN", "DATA", "OPEN_SEXPR"}

\* isBuiltIn that knows the data prefix only.
isBuiltIn_DataOnly(name) == Len(name) > 0 /\ name[1] = "@"

isBuiltIn(name) == name \in BUILT_IN_HELPERS \/ (Len(name) > 0 /\ name[1] = "@")

\* tokens[i]?.name and tokens[i]?.text with the 0-based index i of the code.
NameAt(tokens, i) ==
  IF i >= 0 /\ i < Len(tokens) THEN tokens[i + 1].name ELSE "undefined"

TextAt(tokens, i) ==
  IF i >= 0 /\ i < Len(tokens) THEN tokens[i + 1].text ELSE Undefined

isArgumentToken(tokens, i) == NameAt(tokens, i) \in ARGUMENT_TOKENS

\* The loop of collectPath from index i.
RECURSIVE CollectFrom(_, _, _, _)
CollectFrom(tokens, i, expectingId, path) ==
  IF i >= Len(tokens) THEN path
  ELSE IF NameAt(tokens, i) = "EQUALS" THEN path
  ELSE IF NameAt(tokens, i) = "ID"
    THEN IF ~expectingId THEN path
         ELSE IF NameAt(tokens, i + 1) = "EQUALS" THEN path
         ELSE CollectFrom(tokens, i + 1, FALSE, Append(path, TextAt(tokens, i)))
  ELSE IF NameAt(tokens, i) = "SEP" THEN CollectFrom(tokens, i + 1, TRUE, path)
  ELSE path

\* collectPath that keeps the root segment only.
collectPath_RootOnly(tokens, startIdx) ==
  LET Root(path) == IF path = <<>> THEN path ELSE <<path[1]>>
  IN  Root(CollectFrom(tokens, startIdx, TRUE, <<>>))

collectPath(tokens, startIdx) == CollectFrom(tokens, startIdx, TRUE, <<>>)

\* parts.join('.')
RECURSIVE JoinDots(_)
JoinDots(parts) ==
  IF parts = <<>> THEN <<>>
  ELSE IF Len(parts) = 1 THEN parts[1]
  ELSE parts[1] \o <<".">> \o JoinDots(Tail(parts))

Includes(str, c) == \E i \in 1..Len(str) : str[i] = c

\* createVariable with the variable's own name stored as its context.
createVariable_OwnName(name, path, blockType, context) ==
  [name |-> name,
   path |-> path,
   type |-> IF blockType # Undefined THEN "block"
            ELSE IF Includes(path, ".") \/ (context # Undefined /\ context # <<>>)
              THEN "nested" ELSE "simple",
   blockType |-> blockType,
   context |-> IF context # Undefined THEN name ELSE context]

createVariable(name, path, blockType, context) ==
  [name |-> name,
   path |-> path,
   type |-> IF blockType # Undefined THEN "block"
            ELSE IF Includes(path, ".") \/ (context # Undefined /\ context # <<>>)
              THEN "nested"
            ELSE "simple",
   blockType |-> blockType,
   context |-> context]

\* The parts the frames of a block stack contribute, outermost first.
ContextFrames(blockStack) ==
  SelectSeq(blockStack,
            LAMBDA block : block.helper \in CONTEXT_HELPERS /\ block.context # <<>>)

\* FramePart without the "[]" an each frame adds.
FramePart_Plain(block) == block.context

FramePart(block) ==
  IF block.helper = EACH THEN block.context \o <<"[", "]">> ELSE block.context

\* null, or [prefix, root].
NoContext == [prefix |-> Undefined, root |-> Undefined]

\* computeContextPath with the root taken from the innermost frame.
computeContextPath_Innermost(blockStack) ==
  LET frames == ContextFrames(blockStack)
      parts == [i \in 1..Len(frames) |-> FramePart(frames[i])]
  IN  IF Len(parts) = 0 THEN NoContext
      ELSE [root |-> frames[Len(frames)].context,
            prefix |-> JoinDots(parts) \o <<".">>]

computeContextPath(blockStack) ==
  LET frames == ContextFrames(blockStack)
      parts == [i \in 1..Len(frames) |-> FramePart(frames[i])]
  IN  IF Len(parts) = 0 THEN NoContext
      ELSE [root |-> frames[1].context, prefix |-> JoinDots(parts) \o <<".">>]

(***************************************************************************)
(* parser.ts: parseSegment                                                 *)
(***************************************************************************)
RAW_BLOCK_TOKENS == {"OPEN_RAW_BLOCK", "CLOSE_RAW_BLOCK", "END_RAW_BLOCK"}

OpenedType(tokenName) ==
  IF tokenName \in {"OPEN", "OPEN_UNESCAPED"} THEN "mustache"
  ELSE IF tokenName \in {"OPEN_PARTIAL", "OPEN_PARTIAL_BLOCK"} THEN "partial"
  ELSE IF tokenName \in {"OPEN_BLOCK", "OPEN_INVERSE", "OPEN_INVERSE_CHAIN"} THEN "block"
  ELSE IF tokenName = "OPEN_ENDBLOCK" THEN "endblock"
  ELSE "none"

\* The body of the for-loop of parseSegment for one terminal.  The loop state
\* is [expressions, lastPosition, inExpression, expressionType, tokens].
SegmentStep(st, t) ==
  LET seen == [st EXCEPT !.lastPosition = t.last_column]
  IN  IF t.name \in RAW_BLOCK_TOKENS THEN seen
      ELSE IF OpenedType(t.name) # "none"
        THEN [seen EXCEPT !.inExpression = TRUE,
                          !.expressionType = OpenedType(t.name),
                          !.tokens = <<>>]
      ELSE IF t.name \in {"CLOSE", "CLOSE_UNESCAPED"}
        THEN [seen EXCEPT
                !.expressions =
                  IF st.expressionType # "null"
                    THEN Append(st.expressions,
                                [type |-> st.expressionType,
                                 tokens |-> st.tokens,
                                 helperName |-> TextAt(st.tokens, 0)])
                    ELSE st.expressions,
                !.inExpression = FALSE,
                !.tokens = <<>>]
      ELSE IF st.inExpression
        THEN [seen EXCEPT !.tokens = Append(st.tokens, [name |-> t.name, text |-> t.text])]
      ELSE seen

RECURSIVE SegmentLoop(_, _, _)
SegmentLoop(lexed, i, st) ==
  IF i > Len(lexed) THEN st ELSE SegmentLoop(lexed, i + 1, SegmentStep(st, lexed[i]))

\* parseSegment(content): [expressions, consumed].
parseSegment(content) ==
  LET Result(failed, st) ==
        [expressions |-> st.expressions,
         consumed |-> IF failed THEN st.lastPosition ELSE Len(content)]
      Walk(lexed) ==
        Result(lexed.failed,
               SegmentLoop(lexed.tokens, 1,
                           [expressions |-> <<>>, lastPosition |-> 0,
                            inExpression |-> FALSE, expressionType |-> "null",
                            tokens |-> <<>>]))
  IN  Walk(LexAll(content))

(***************************************************************************)
(* parser.ts: variable extraction                                          *)
(***************************************************************************)
HasPath(variables, fullPath) == \E i \in 1..Len(variables) : variables[i].path = fullPath

\* addVariable without the variables.has(fullPath) test.
addVariable_Always(path, ctx, variables, blockType) ==
  LET name == path[1]
      hasContext == /\ ctx.prefix # Undefined /\ ctx.prefix # <<>>
                    /\ ctx.root # Undefined /\ ctx.root # <<>>
      fullPath == IF hasContext THEN ctx.prefix \o JoinDots(path) ELSE JoinDots(path)
      context == IF hasContext THEN ctx.root ELSE Undefined
  IN  Append(variables, createVariable(name, fullPath, blockType, context))

addVariable(path, ctx, variables, blockType) ==
  LET name == path[1]
      hasContext == /\ ctx.prefix # Undefined /\ ctx.prefix # <<>>
                    /\ ctx.root # Undefined /\ ctx.root # <<>>
      fullPath == IF hasContext THEN ctx.prefix \o JoinDots(path) ELSE JoinDots(path)
      context == IF hasContext THEN ctx.root ELSE Undefined
  IN  IF HasPath(variables, fullPath) THEN variables
      ELSE Append(variables, createVariable(name, fullPath, blockType, context))

\* The loop of extractArguments from index i.
RECURSIVE extractArguments(_, _, _, _)
extractArguments(tokens, i, ctx, variables) ==
  IF i >= Len(tokens) THEN variables
  ELSE
    LET name == NameAt(tokens, i)
        argPath == collectPath(tokens, i)
    IN  IF name \in {"OPEN_SEXPR", "CLOSE_SEXPR"}
          THEN extractArguments(tokens, i + 1, ctx, variables)
        ELSE IF name = "DATA" \/ NameAt(tokens, i - 1) = "DATA"
          THEN extractArguments(tokens, i + 1, ctx, variables)
        ELSE IF name = "EQUALS" \/ (name = "ID" /\ NameAt(tokens, i + 1) = "EQUALS")
          THEN extractArguments(tokens, i + 1, ctx, variables)
        ELSE IF name = "ID" /\ ~isBuiltIn(TextAt(tokens, i))
          THEN IF NameAt(tokens, i - 1) = "OPEN_SEXPR"
                 THEN extractArguments(tokens, i + 1, ctx, variables)
               ELSE IF Len(argPath) > 0
                 THEN extractArguments(tokens, i + Len(argPath) * 2 - 1, ctx,
                                       addVariable(argPath, ctx, variables, Undefined))
               ELSE extractArguments(tokens, i + 1, ctx, variables)
        ELSE extractArguments(tokens, i + 1, ctx, variables)

extractFromMustache(expr, ctx, variables) ==
  LET tokens == expr.tokens
      path == collectPath(tokens, 0)
      endIdx == Len(path) * 2 - 1
  IN  IF Len(tokens) = 0 THEN variables
      ELSE IF NameAt(tokens, 0) = "DATA" THEN variables
      ELSE IF isBuiltIn(TextAt(tokens, 0)) THEN extractArguments(tokens, 1, ctx, variables)
      ELSE IF Len(path) > 0
        THEN IF isArgumentToken(tokens, endIdx)
               THEN extractArguments(tokens, endIdx, ctx, variables)
               ELSE addVariable(path, ctx, variables, Undefined)
      ELSE variables

\* The index of the first ID token at or after 0-based index i, Len(tokens) if none.
RECURSIVE FirstId(_, _)
FirstId(tokens, i) ==
  IF i < Len(tokens) /\ NameAt(tokens, i) # "ID" THEN FirstId(tokens, i + 1) ELSE i

\* extractFromBlock: [frame, variables].
extractFromBlock(expr, ctx, variables) ==
  LET tokens == expr.tokens
      firstName == TextAt(tokens, 0)
      idx == FirstId(tokens, 1)
      argPath == collectPath(tokens, idx)
      recorded ==
        IF NameAt(tokens, 1) = "OPEN_SEXPR" THEN extractArguments(tokens, 1, ctx, variables)
        ELSE IF idx < Len(tokens) /\ Len(argPath) > 0 /\ ~isBuiltIn(argPath[1])
          THEN addVariable(argPath, ctx, variables, firstName)
        ELSE variables
  IN  IF firstName \in CONTEXT_HELPERS
        THEN [frame |-> [helper |-> firstName,
                         context |->
                           IF /\ NameAt(tokens, 1) # "OPEN_SEXPR"
                              /\ idx < Len(tokens) /\ Len(argPath) > 0
                             THEN argPath[1] ELSE <<>>],
              variables |-> recorded]
      ELSE IF firstName \in BUILT_IN_HELPERS
        THEN [frame |-> [helper |-> firstName, context |-> <<>>],
              variables |-> recorded]
      ELSE [frame |-> [helper |-> firstName, context |-> <<>>],
            variables |-> variables]

\* The index extractFromPartial starts the arguments at.
RECURSIVE PartialArgs(_, _)
PartialArgs(tokens, idx) ==
  IF idx < Len(tokens) /\ NameAt(tokens, idx) \in {"SEP", "ID"}
    THEN IF NameAt(tokens, idx) = "ID" /\ NameAt(tokens, idx - 1) # "SEP"
           THEN idx
           ELSE PartialArgs(tokens, idx + 1)
    ELSE idx

extractFromPartial(expr, ctx, variables) ==
  extractArguments(expr.tokens, PartialArgs(expr.tokens, 1), ctx, variables)

updateBlockStack(stack, expr) ==
  IF expr.type = "endblock"
    THEN IF Len(stack) > 0 THEN SubSeq(stack, 1, Len(stack) - 1) ELSE stack
    ELSE stack

\* One iteration of the loop of extractVariablesFromExpressions:
\* [variables, blockStack] after expression expr.
ExtractOne(expr, blockStack, variables) ==
  LET ctx == computeContextPath(blockStack)
      block == extractFromBlock(expr, ctx, variables)
  IN  IF expr.type = "mustache"
        THEN [variables |-> extractFromMustache(expr, ctx, variables),
              blockStack |-> blockStack]
      ELSE IF expr.type = "block"
        THEN [variables |-> block.variables,
              blockStack |-> Append(blockStack, block.frame)]
      ELSE IF expr.type = "partial"
        THEN [variables |-> extractFromPartial(expr, ctx, variables),
              blockStack |-> blockStack]
      ELSE [variables |-> variables,
            blockStack |-> updateBlockStack(blockStack, expr)]

\* [...new Set(variables.filter(v => !v.context).map(v => v.name))]
RECURSIVE Unique(_, _)
Unique(names, seen) ==
  IF names = <<>> THEN <<>>
  ELSE IF Head(names) \in seen THEN Unique(Tail(names), seen)
  ELSE <<Head(names)>> \o Unique(Tail(names), seen \cup {Head(names)})

\* rootVariables without the filter on context.
rootVariablesOf_AllNames(variables) ==
  Unique([i \in 1..Len(variables) |-> variables[i].name], {})

rootVariablesOf(variables) ==
  LET top == SelectSeq(variables, LAMBDA v : v.context = Undefined \/ v.context = <<>>)
  IN  Unique([i \in 1..Len(top) |-> top[i].name], {})

(***************************************************************************)
(* parser.ts: interpolate, and the templating engine it delegates to       *)
(***************************************************************************)
\* An optional object argument: absent, or given with its entries.
NoObject == [given |-> FALSE, entries |-> {}]

Object(entries) == [given |-> TRUE, entries |-> entries]

\* What a call that throws gives instead of a string.
Thrown == <<"Error">>

\* Handlebars.create(): an engine of its own, with no custom helper.
create == {}

\* hbs.registerHelper(name, fn) for every entry of options.helpers; a name
\* registered again replaces the helper of that name.
registerHelpers(hbs, entries) ==
  {h \in hbs : \A e \in entries : e.name # h.name} \cup entries

HasHelper(hbs, name) == \E h \in hbs : h.name = name

\* The helper functions of the model: "twice" doubles its argument, "wrap"
\* puts it in parentheses.
Apply(fn, argument) ==
  IF fn = "twice" THEN argument \o argument ELSE <<"(">> \o argument \o <<")">>

CallHelper(hbs, name, argument) ==
  Apply((CHOOSE h \in hbs : h.name = name).fn, argument)

\* The value of a name in the variables object, the empty string when it
\* has none.
Lookup(variables, name) ==
  IF \E v \in variables : v.name = name
    THEN (CHOOSE v \in variables : v.name = name).value
    ELSE <<>>

Join(text, rest) == IF rest = Thrown THEN Thrown ELSE text \o rest

\* The output of the compiled template from its i-th terminal on: text is
\* copied, {{name}} gives the helper's result or the variable's value,
\* {{name argument}} calls the helper and throws when none has that name.
RECURSIVE RenderFrom(_, _, _, _)
RenderFrom(tokens, i, hbs, variables) ==
  LET Names(k) == [j \in 1..k |-> IF i + j - 1 <= Len(tokens) THEN tokens[i + j - 1].name
                                                          ELSE "undefined"]
  IN  IF i > Len(tokens) \/ tokens[i].name = "EOF" THEN <<>>
      ELSE IF tokens[i].name = "CONTENT"
        THEN Join(tokens[i].text, RenderFrom(tokens, i + 1, hbs, variables))
      ELSE IF Names(3) = <<"OPEN", "ID", "CLOSE">>
        THEN Join(IF HasHelper(hbs, tokens[i + 1].text)
                    THEN CallHelper(hbs, tokens[i + 1].text, <<>>)
                    ELSE Lookup(variables, tokens[i + 1].text),
                  RenderFrom(tokens, i + 3, hbs, variables))
      ELSE IF Names(4) = <<"OPEN", "ID", "ID", "CLOSE">>
        THEN IF HasHelper(hbs, tokens[i + 1].text)
               THEN Join(CallHelper(hbs, tokens[i + 1].text,
                                    Lookup(variables, tokens[i + 2].text)),
                         RenderFrom(tokens, i + 4, hbs, variables))
               ELSE Thrown
      ELSE Thrown

\* hbs.compile(content)(variables): throws when the scanner does.
compile(hbs, content, variables) ==
  LET Rendered(lexed) ==
        IF lexed.failed THEN Thrown ELSE RenderFrom(lexed.tokens, 1, hbs, variables)
  IN  Rendered(LexAll(content))

\* interpolate that registers the helpers on the shared engine.
interpolate_SharedEngine(content, variables, helpers, Handlebars) ==
  IF ~variables.given
    THEN [returned |-> content, Handlebars |-> Handlebars, compiled |-> FALSE,
          created |-> FALSE, hbs |-> {}]
    ELSE LET Delegated(hbs) ==
               [returned |-> compile(hbs, content, variables.entries),
                Handlebars |-> hbs, compiled |-> TRUE,
                created |-> FALSE, hbs |-> hbs]
         IN  Delegated(registerHelpers(Handlebars, helpers.entries))

\* interpolate without the early return.
interpolate_AlwaysCompiles(content, variables, helpers, Handlebars) ==
  LET Delegated(hbs) ==
        [returned |-> compile(hbs, content, variables.entries),
         Handlebars |-> Handlebars, compiled |-> TRUE,
         created |-> helpers.given, hbs |-> hbs]
  IN  Delegated(IF helpers.given THEN registerHelpers(create, helpers.entries)
                                 ELSE Handlebars)

\* interpolate(content, variables, options) with the shared engine
\* Handlebars: what it returns, the shared engine afterwards, and whether an
\* engine compiled the template, whether one was created, and its helpers.
interpolate(content, variables, helpers, Handlebars) ==
  IF ~variables.given
    THEN [returned |-> content, Handlebars |-> Handlebars, compiled |-> FALSE,
          created |-> FALSE, hbs |-> {}]
    ELSE LET Delegated(hbs) ==
               [returned |-> compile(hbs, content, variables.entries),
                Handlebars |-> Handlebars, compiled |-> TRUE,
                created |-> helpers.given, hbs |-> hbs]
         IN  Delegated(IF helpers.given THEN registerHelpers(create, helpers.entries)
                                        ELSE Handlebars)

(***************************************************************************)
(* The inputs: templates built from a few pieces                           *)
(***************************************************************************)
\* The longest template, in pieces, of each family, and the iterations of
\* the loop of parseExpressions the model follows.
MaxTokenizePieces == 3
MaxRecoverPieces == 4
MaxScopePieces == 4
MaxIterations == 3

BoundedSeqs(S, n) == UNION {[1..k -> S] : k \in 0..n}

Templates(pieces, n) == {Flatten(ps) : ps \in BoundedSeqs(pieces, n)}

\* tokenize: delimiters, an identifier, the data sigil, white space, an
\* unterminated block comment and a raw block opener.
TokenizePieces ==
  { <<"{", "{">>, <<"}", "}">>, <<"a">>, <<"@">>, <<" ">>, <<NL>>,
    <<"{", "{", "!", "-", "-">>,
    <<"{", "{", "{", "{", "a", "}", "}", "}", "}">> }

\* extract, recovery: an expression, an unclosed expression, a line break,
\* an unterminated block comment and a raw block that is never ended.
RecoverPieces ==
  { <<"{", "{", "a", "}", "}">>,
    <<"{", "{", "b", " ">>,
    <<NL>>,
    <<"{", "{", "!", "-", "-">>,
    <<"{", "{", "{", "{", "a", "}", "}", "}", "}", "x">> }

\* extract, raw-block openers: at most MaxRawPieces pieces, each a value
\* output, a block-open tag, an end tag, or a raw-block opener closed by an
\* ordinary closing delimiter.
MaxRawPieces == 2

RawPieces ==
  { <<"{", "{", "a", "}", "}">>,
    <<"{", "{", "#", "i", "f", " ", "a", "}", "}">>,
    <<"{", "{", "/", "i", "f", "}", "}">>,
    <<"{", "{", "{", "{", "b", "}", "}">> }

\* extract, lone separators: one value output of at most MaxDotPieces pieces,
\* each an identifier, a dot, an equals sign or a space.
MaxDotPieces == 3

DotPieces == { <<"a">>, <<".">>, <<"=">>, <<" ">> }

DotTemplates ==
  { <<"{", "{">> \o Flatten(pieces) \o <<"}", "}">> :
      pieces \in BoundedSeqs(DotPieces, MaxDotPieces) }

\* extract, scoping: block-open tags, an else chain, an end tag and two
\* value outputs.
ScopePieces ==
  { <<"{", "{", "#", "e", "a", "c", "h", " ", "a", "}", "}">>,
    <<"{", "{", "#", "w", "i", "t", "h", " ", "b", "}", "}">>,
    <<"{", "{", "#", "i", "f", " ", "a", "}", "}">>,
    <<"{", "{", "e", "l", "s", "e", " ", "i", "f", " ", "b", "}", "}">>,
    <<"{", "{", "e", "l", "s", "e", "}", "}">>,
    <<"{", "{", "/", "e", "a", "c", "h", "}", "}">>,
    <<"{", "{", "a", "}", "}">>,
    <<"{", "{", "b", ".", "a", "}", "}">> }

\* extract, arguments: one expression, an opener followed by at most
\* MaxArgPieces arguments, closed, and then nothing or a value output of x.
MaxArgPieces == 2

ExprOpeners ==
  { <<"{", "{">>,
    <<"{", "{", "h", " ">>,
    <<"{", "{", "l", "o", "o", "k", "u", "p", " ">>,
    <<"{", "{", "#", "e", "a", "c", "h", " ">>,
    <<"{", "{", "#", "i", "f", " ">>,
    <<"{", "{", "#", "h", " ">>,
    <<"{", "{", "#", "l", "o", "o", "k", "u", "p", " ">>,
    <<"{", "{", ">", " ", "p", " ">> }

ExprArguments ==
  { <<"a", " ">>,
    <<"b", ".", "a", " ">>,
    <<"@", "d", " ">>,
    <<"k", "=", "b", ".", "a", " ">>,
    <<"t", "h", "i", "s", " ">>,
    <<"n", "u", "l", "l", " ">>,
    <<"1", " ">>,
    <<"(", "h", " ", "a", ")", " ">>,
    <<"a", "s", " ", "|", "x", "|", " ">> }

ExprSuffixes == { <<>>, <<"{", "{", "x", "}", "}">> }

ExprTemplates ==
  { opener \o Flatten(arguments) \o <<"}", "}">> \o suffix :
      opener \in ExprOpeners,
      arguments \in BoundedSeqs(ExprArguments, MaxArgPieces),
      suffix \in ExprSuffixes }

\* tokenize, identifiers: one expression, an opener followed by at most
\* MaxClassifyPieces pieces, closed.
MaxClassifyPieces == 3

ClassifyOpeners ==
  { <<"{", "{">>,
    <<"{", "{", "h", " ">>,
    <<"{", "{", "#", "e", "a", "c", "h", " ">> }

ClassifyPieces ==
  { <<"t", "h", "i", "s">>, <<"a">>, <<".">>, <<"=">>, <<"@">>, <<" ">>,
    <<"a", "s", " ", "|">>, <<"|">> }

ClassifyTemplates ==
  { opener \o Flatten(pieces) \o <<"}", "}">> :
      opener \in ClassifyOpeners,
      pieces \in BoundedSeqs(ClassifyPieces, MaxClassifyPieces) }

\* tokenize, expression kinds: one expression of each kind, an opener
\* followed by at most MaxContextPieces pieces, closed.
MaxContextPieces == 3

ContextOpeners ==
  { <<"{", "{">>,
    <<"{", "{", "#">>,
    <<"{", "{", "/">>,
    <<"{", "{", ">">> }

ContextPieces == { <<"a">>, <<" ">>, <<"1">>, <<"(">>, <<".">>, <<"@">> }

ContextTemplates ==
  { opener \o Flatten(pieces) \o <<"}", "}">> :
      opener \in ContextOpeners,
      pieces \in BoundedSeqs(ContextPieces, MaxContextPieces) }

\* tokenize, dotted paths: at most MaxPathPieces expressions, each a value
\* output or a helper call of a plain or data path.
MaxPathPieces == 2

PathPieces ==
  { <<"{", "{", "h", " ", "a", "}", "}">>,
    <<"{", "{", "a", ".", "b", "}", "}">>,
    <<"{", "{", "h", " ", "a", ".", "b", ".", "c", "}", "}">>,
    <<"{", "{", "@", "a", ".", "b", "}", "}">>,
    <<"{", "{", "h", " ", "@", "a", ".", "b", "}", "}">>,
    <<"{", "{", ".", "b", "}", "}">> }

\* tokenize, line breaks: at most MaxLinePieces pieces, each a line feed, a
\* carriage return, a letter, a value output or an unterminated comment.
MaxLinePieces == 3

LinePieces ==
  { <<NL>>, <<CR>>, <<"a">>, <<"{", "{", "a", "}", "}">>,
    <<"{", "{", "!", "-", "-">> }

\* tokenize, block-parameter lists: at most MaxBlockParamPieces expressions,
\* each a block opener with a closed or an unclosed list, or a value output.
MaxBlockParamPieces == 2

BlockParamPieces ==
  { <<"{", "{", "#", "e", "a", "c", "h", " ", "a", " ", "a", "s", " ", "|", "x", "}", "}">>,
    <<"{", "{", "#", "e", "a", "c", "h", " ", "a", " ", "a", "s", " ", "|", "x", "|", "}", "}">>,
    <<"{", "{", "a", "}", "}">>,
    <<"{", "{", "/", "e", "a", "c", "h", "}", "}">> }

\* interpolate: the templates of the calls (empty, text, a value output, a
\* helper call, both, and an unterminated block comment), and the calls a
\* behaviour makes.
MaxCalls == 3

InterpolateTemplates ==
  { <<>>,
    <<"t">>,
    <<"t", "{", "{", "a", "}", "}">>,
    <<"{", "{", "f", " ", "a", "}", "}">>,
    <<"{", "{", "a", "}", "}", "{", "{", "f", " ", "a", "}", "}">>,
    <<"t", "{", "{", "!", "-", "-">> }

VariableObjects ==
  { Object({}), Object({[name |-> <<"a">>, value |-> <<"1">>]}) }

HelperObjects ==
  { Object({}),
    Object({[name |-> <<"f">>, fn |-> "wrap"]}),
    Object({[name |-> <<"f">>, fn |-> "twice"]}) }

\* The helpers the application may have registered on the shared engine.
SharedHelpers == { {}, {[name |-> <<"f">>, fn |-> "twice"]} }

\* The pattern of afterError.search(/\{\{/).
OPEN_DELIMITER == <<"{", "{">>

(***************************************************************************)
(* The calls on the scanner both modules share (Parser.lexer): each       *)
(* operator takes the state lx the calls before it left the scanner in     *)
(* and gives its result together with the state it leaves behind.          *)
(***************************************************************************)
\* lexerTokenize on the shared scanner without its call of setInput: the
\* new input is read in the conditions the scanner was left in.
lexerTokenizeOn_NoSetInput(content, lx) ==
  LET lines == SplitLines(content, 0)
      Raw(lexed) ==
        [tokens |-> [i \in 1..Len(lexed.tokens) |-> RawToken(lines, lexed.tokens[i])],
         lx |-> lexed.lx]
  IN  Raw(LexLoop(content, [SetInput EXCEPT !.stack = lx.stack], <<>>))

\* lexerTokenize(content) on the shared scanner.
lexerTokenizeOn(content, lx) ==
  LET lines == SplitLines(content, 0)
      Raw(lexed) ==
        [tokens |-> [i \in 1..Len(lexed.tokens) |-> RawToken(lines, lexed.tokens[i])],
         lx |-> lexed.lx]
  IN  Raw(LexLoop(content, setInput(lx), <<>>))

\* tokenize(content) on the shared scanner; the empty content returns before
\* the scanner is touched.
tokenizeOn(content, lx) ==
  LET Staged(raw) ==
        [output |-> dropEmpty(buildOutput(content,
                      classifyTokens(annotateContext(normalizeTokens(raw.tokens))))),
         lx |-> raw.lx]
  IN  IF content = <<>> THEN [output |-> <<>>, lx |-> lx]
      ELSE Staged(lexerTokenizeOn(content, lx))

\* parseSegment(content) on the shared scanner: setInput, then the condition
\* stack is assigned once more.
parseSegmentOn(content, lx) ==
  LET Result(lexed, st) ==
        [expressions |-> st.expressions,
         consumed |-> IF lexed.failed THEN st.lastPosition ELSE Len(content),
         lx |-> lexed.lx]
      Walk(lexed) ==
        Result(lexed,
               SegmentLoop(lexed.tokens, 1,
                           [expressions |-> <<>>, lastPosition |-> 0,
                            inExpression |-> FALSE, expressionType |-> "null",
                            tokens |-> <<>>]))
  IN  Walk(LexLoop(content, [setInput(lx) EXCEPT !.stack = <<"INITIAL">>], <<>>))

\* parseExpressions(content) on the shared scanner, the loop cut after
\* MaxIterations segments.
RECURSIVE parseExpressionsOn(_, _, _, _)
parseExpressionsOn(remaining, lx, iterations, expressions) ==
  LET Segment(r) ==
        LET all == expressions \o r.expressions
            afterError == SliceFrom(remaining, r.consumed)
            nextOpen == IndexFrom(afterError, 0, OPEN_DELIMITER)
        IN  IF r.consumed = Len(remaining) \/ nextOpen = -1
              THEN [expressions |-> all, lx |-> r.lx]
              ELSE parseExpressionsOn(SliceFrom(afterError, nextOpen), r.lx,
                                      iterations + 1, all)
  IN  IF Len(remaining) = 0 \/ iterations >= MaxIterations
        THEN [expressions |-> expressions, lx |-> lx]
        ELSE Segment(parseSegmentOn(remaining, lx))

\* The loop of extractVariablesFromExpressions from expression i on.
RECURSIVE extractVariablesFrom(_, _, _, _)
extractVariablesFrom(expressions, i, blockStack, variables) ==
  LET Step(r) == extractVariablesFrom(expressions, i + 1, r.blockStack, r.variables)
  IN  IF i > Len(expressions) THEN variables
      ELSE Step(ExtractOne(expressions[i], blockStack, variables))

\* extract(content) on the shared scanner.
extractOn(content, lx) ==
  LET Extracted(vs, after) ==
        [variables |-> vs, rootVariables |-> rootVariablesOf(vs), lx |-> after]
      Parsed(p) == Extracted(extractVariablesFrom(p.expressions, 1, <<>>, <<>>), p.lx)
  IN  Parsed(parseExpressionsOn(content, lx, 0, <<>>))

\* Handlebars.compile(content)(variables) on the shared scanner: the parser
\* of the engine calls setInput and reads the whole input.
compileOn(content, lx) == LexLoop(content, setInput(lx), <<>>).lx

(***************************************************************************)
(* The state                                                               *)
(***************************************************************************)
VARIABLES
  content,        \* the template the call was made with
  pc,             \* where the call stands
  \* tokenize
  lx,             \* the scanner state
  rawTokens,      \* stage 1
  lexFailed,      \* stage 1 ended in the catch clause
  normalized,     \* stage 2
  annotated,      \* stage 3
  classified,     \* stage 4
  output,         \* the tokens tokenize returns
  \* extract
  remaining,      \* parseExpressions: the suffix still to parse
  result,         \* parseExpressions: what parseSegment(remaining) returned
  expressions,    \* parseExpressions: the expressions collected
  iterations,     \* parseExpressions: iterations of the loop so far
  exprIdx,        \* extractVariablesFromExpressions: the next expression
  blockStack,     \* extractVariablesFromExpressions: the open block frames
  variables,      \* the variables recorded, in insertion order
  rootVariables   \* extract's rootVariables

VARIABLES
  Handlebars,     \* interpolate: the custom helpers of the shared engine
  call,           \* interpolate: the last call, its arguments and outcome
  supplied,       \* interpolate: the helpers the calls before it were given
  count           \* interpolate: the calls made

VARIABLES
  lexer,          \* the scanner both modules share, as the last call left it
  found           \* the scanner as the last call found it

interpolateVars == <<Handlebars, call, supplied, count>>
VARIABLES
  autocompleteState,  \* the editor: [isOpen, options, selectedIndex, filterText, isRaw]
  inserted,           \* the editor: the option the last event inserted, if any
  event               \* the editor: the last event handled

sharedVars == <<lexer, found>>
editorVars == <<autocompleteState, inserted, event>>
tokenizeVars == <<lx, rawTokens, lexFailed, normalized, annotated, classified, output>>
extractVars ==
  <<remaining, result, expressions, iterations, exprIdx, blockStack, variables,
    rootVariables>>
vars ==
  <<content, pc, tokenizeVars, extractVars, interpolateVars, sharedVars, editorVars>>

TokenizeIdle ==
  /\ lx = SetInput
  /\ rawTokens = <<>>
  /\ lexFailed = FALSE
  /\ normalized = <<>>
  /\ annotated = <<>>
  /\ classified = <<>>
  /\ output = <<>>

ExtractIdle ==
  /\ remaining = content
  /\ result = [expressions |-> <<>>, consumed |-> 0]
  /\ expressions = <<>>
  /\ iterations = 0
  /\ exprIdx = 1
  /\ blockStack = <<>>
  /\ variables = <<>>
  /\ rootVariables = <<>>

InterpolateIdle ==
  /\ call = [variables |-> NoObject, helpers |-> NoObject, returned |-> <<>>,
             compiled |-> FALSE, created |-> FALSE, hbs |-> {}]
  /\ supplied = {}
  /\ count = 0

SharedIdle ==
  /\ lexer = SetInput
  /\ found = SetInput

\* useState<AutocompleteState>({ isOpen: false, options: [], selectedIndex: 0, ... })
EditorIdle ==
  /\ autocompleteState = [isOpen |-> FALSE, options |-> <<>>, selectedIndex |-> 0,
                          filterText |-> <<>>, isRaw |-> FALSE]
  /\ inserted = <<>>
  /\ event = "mount"

\* A call of tokenize(content).
InitTokenize ==
  /\ content \in Templates(TokenizePieces, MaxTokenizePieces)
                 \cup ClassifyTemplates
                 \cup ContextTemplates
                 \cup Templates(PathPieces, MaxPathPieces)
                 \cup Templates(BlockParamPieces, MaxBlockParamPieces)
                 \cup Templates(LinePieces, MaxLinePieces)
  /\ pc = "tokenize"
  /\ TokenizeIdle
  /\ ExtractIdle
  /\ Handlebars = {}
  /\ InterpolateIdle
  /\ SharedIdle
  /\ EditorIdle

\* A call of extract(content).
InitExtract ==
  /\ content \in Templates(RecoverPieces, MaxRecoverPieces)
                 \cup Templates(ScopePieces, MaxScopePieces)
                 \cup ExprTemplates
                 \cup Templates(RawPieces, MaxRawPieces)
                 \cup DotTemplates
  /\ pc = "parse"
  /\ TokenizeIdle
  /\ ExtractIdle
  /\ Handlebars = {}
  /\ InterpolateIdle
  /\ SharedIdle
  /\ EditorIdle

\* The application before its calls of interpolate.
InitInterpolate ==
  /\ content = <<>>
  /\ pc = "interpolate"
  /\ TokenizeIdle
  /\ ExtractIdle
  /\ Handlebars \in SharedHelpers
  /\ InterpolateIdle
  /\ SharedIdle
  /\ EditorIdle

\* The application before its calls on the shared scanner.
InitShared ==
  /\ content = <<>>
  /\ pc = "shared"
  /\ TokenizeIdle
  /\ ExtractIdle
  /\ Handlebars = {}
  /\ InterpolateIdle
  /\ SharedIdle
  /\ EditorIdle

\* The editor after it was mounted.
InitEditor ==
  /\ content = <<>>
  /\ pc = "editor"
  /\ TokenizeIdle
  /\ ExtractIdle
  /\ Handlebars = {}
  /\ InterpolateIdle
  /\ SharedIdle
  /\ EditorIdle

(***************************************************************************)
(* tokenize, step by step                                                  *)
(***************************************************************************)
\* if (!content) return []
TokenizeEmpty ==
  /\ pc = "tokenize"
  /\ content = <<>>
  /\ pc' = "tokenized"
  /\ UNCHANGED <<content, interpolateVars, sharedVars, editorVars, tokenizeVars, extractVars>>

\* lexerTokenize: setInput and the first lex().
TokenizeStart ==
  /\ pc = "tokenize"
  /\ content # <<>>
  /\ pc' = "lex"
  /\ UNCHANGED <<content, interpolateVars, sharedVars, editorVars, tokenizeVars, extractVars>>

\* lexerTokenize: lex() returned a terminal, which is pushed.
LexToken ==
  /\ pc = "lex"
  /\ LET r == Lex(content, lx)
     IN  /\ r.kind = "token"
         /\ lx' = r.lx
         /\ rawTokens' = Append(rawTokens, RawToken(SplitLines(content, 0), r))
  /\ UNCHANGED <<content, interpolateVars, sharedVars, editorVars, pc, lexFailed, normalized, annotated, classified, output,
                 extractVars>>

\* lexerTokenize: lex() returned lexer.EOF, the loop ends.
LexEnd ==
  /\ pc = "lex"
  /\ LET r == Lex(content, lx)
     IN  /\ r.kind = "eof"
         /\ lx' = r.lx
  /\ pc' = "normalize"
  /\ UNCHANGED <<content, interpolateVars, sharedVars, editorVars, rawTokens, lexFailed, normalized, annotated, classified,
                 output, extractVars>>

\* lexerTokenize: lex() threw, the catch clause keeps the tokens read so far.
LexThrow ==
  /\ pc = "lex"
  /\ LET r == Lex(content, lx)
     IN  /\ r.kind = "error"
         /\ lx' = r.lx
  /\ lexFailed' = TRUE
  /\ pc' = "normalize"
  /\ UNCHANGED <<content, interpolateVars, sharedVars, editorVars, rawTokens, normalized, annotated, classified, output,
                 extractVars>>

Normalize ==
  /\ pc = "normalize"
  /\ normalized' = normalizeTokens(rawTokens)
  /\ pc' = "annotate"
  /\ UNCHANGED <<content, interpolateVars, sharedVars, editorVars, lx, rawTokens, lexFailed, annotated, classified, output,
                 extractVars>>

Annotate ==
  /\ pc = "annotate"
  /\ annotated' = annotateContext(normalized)
  /\ pc' = "classify"
  /\ UNCHANGED <<content, interpolateVars, sharedVars, editorVars, lx, rawTokens, lexFailed, normalized, classified, output,
                 extractVars>>

Classify ==
  /\ pc = "classify"
  /\ classified' = classifyTokens(annotated)
  /\ pc' = "build"
  /\ UNCHANGED <<content, interpolateVars, sharedVars, editorVars, lx, rawTokens, lexFailed, normalized, annotated, output,
                 extractVars>>

\* buildOutput and the filter of tokenize.
BuildOutput ==
  /\ pc = "build"
  /\ output' = dropEmpty(buildOutput(content, classified))
  /\ pc' = "tokenized"
  /\ UNCHANGED <<content, interpolateVars, sharedVars, editorVars, lx, rawTokens, lexFailed, normalized, annotated, classified,
                 extractVars>>

NextTokenize ==
  \/ TokenizeEmpty
  \/ TokenizeStart
  \/ LexToken
  \/ LexEnd
  \/ LexThrow
  \/ Normalize
  \/ Annotate
  \/ Classify
  \/ BuildOutput

(***************************************************************************)
(* extract, step by step                                                   *)
(***************************************************************************)
\* remaining.slice(result.consumed)
AfterError == SliceFrom(remaining, result.consumed)

\* afterError.search(/\{\{/)
NextOpen == IndexFrom(AfterError, 0, OPEN_DELIMITER)

\* parseExpressions: the loop condition fails.
ParseNothing ==
  /\ pc = "parse"
  /\ Len(remaining) = 0
  /\ pc' = "extract"
  /\ UNCHANGED <<content, interpolateVars, sharedVars, editorVars, tokenizeVars, extractVars>>

\* parseExpressions: const result = parseSegment(remaining) and the push of
\* its expressions.
ParseSegment ==
  /\ pc = "parse"
  /\ Len(remaining) > 0
  /\ iterations < MaxIterations
  /\ result' = parseSegment(remaining)
  /\ expressions' = expressions \o result'.expressions
  /\ iterations' = iterations + 1
  /\ pc' = "parsed"
  /\ UNCHANGED <<content, interpolateVars, sharedVars, editorVars, tokenizeVars, remaining, exprIdx, blockStack, variables,
                 rootVariables>>

\* parseExpressions: the segment was read to its end.
ParseToEnd ==
  /\ pc = "parsed"
  /\ result.consumed = Len(remaining)
  /\ pc' = "extract"
  /\ UNCHANGED <<content, interpolateVars, sharedVars, editorVars, tokenizeVars, extractVars>>

\* parseExpressions: the scanner failed and no opening delimiter follows.
ParseGiveUp ==
  /\ pc = "parsed"
  /\ result.consumed # Len(remaining)
  /\ NextOpen = -1
  /\ pc' = "extract"
  /\ UNCHANGED <<content, interpolateVars, sharedVars, editorVars, tokenizeVars, extractVars>>

\* parseExpressions: the scanner failed, parsing resumes at the next "{{".
ParseResync ==
  /\ pc = "parsed"
  /\ result.consumed # Len(remaining)
  /\ NextOpen # -1
  /\ remaining' = SliceFrom(AfterError, NextOpen)
  /\ pc' = "parse"
  /\ UNCHANGED <<content, interpolateVars, sharedVars, editorVars, tokenizeVars, result, expressions, iterations, exprIdx,
                 blockStack, variables, rootVariables>>

\* extractVariablesFromExpressions: one expression.
ExtractExpression ==
  /\ pc = "extract"
  /\ exprIdx <= Len(expressions)
  /\ LET r == ExtractOne(expressions[exprIdx], blockStack, variables)
     IN  /\ variables' = r.variables
         /\ blockStack' = r.blockStack
  /\ exprIdx' = exprIdx + 1
  /\ UNCHANGED <<content, interpolateVars, sharedVars, editorVars, pc, tokenizeVars, remaining, result, expressions,
                 iterations, rootVariables>>

\* extract: the loop is over, rootVariables is derived and the call returns.
ExtractReturn ==
  /\ pc = "extract"
  /\ exprIdx > Len(expressions)
  /\ rootVariables' = rootVariablesOf(variables)
  /\ pc' = "extracted"
  /\ UNCHANGED <<content, interpolateVars, sharedVars, editorVars, tokenizeVars, remaining, result, expressions, iterations,
                 exprIdx, blockStack, variables>>

NextExtract ==
  \/ ParseNothing
  \/ ParseSegment
  \/ ParseToEnd
  \/ ParseGiveUp
  \/ ParseResync
  \/ ExtractExpression
  \/ ExtractReturn

(***************************************************************************)
(* interpolate, call by call                                               *)
(***************************************************************************)
\* interpolate(c) and interpolate(c, undefined, options): if (!variables)
\* return content.
InterpolateNoVariables ==
  \E c \in InterpolateTemplates, h \in HelperObjects \cup {NoObject} :
    LET Returned(r) ==
          /\ Handlebars' = r.Handlebars
          /\ call' = [variables |-> NoObject, helpers |-> h, returned |-> r.returned,
                      compiled |-> r.compiled, created |-> r.created, hbs |-> r.hbs]
    IN  /\ pc = "interpolate"
        /\ count < MaxCalls
        /\ content' = c
        /\ Returned(interpolate(c, NoObject, h, Handlebars))
        /\ supplied' = supplied \cup call.helpers.entries
        /\ count' = count + 1
        /\ UNCHANGED <<pc, tokenizeVars, extractVars, sharedVars, editorVars>>

\* interpolate(c, v): no options.helpers, the shared engine compiles.
InterpolateShared ==
  \E c \in InterpolateTemplates, v \in VariableObjects :
    LET Returned(r) ==
          /\ Handlebars' = r.Handlebars
          /\ call' = [variables |-> v, helpers |-> NoObject, returned |-> r.returned,
                      compiled |-> r.compiled, created |-> r.created, hbs |-> r.hbs]
    IN  /\ pc = "interpolate"
        /\ count < MaxCalls
        /\ content' = c
        /\ Returned(interpolate(c, v, NoObject, Handlebars))
        /\ supplied' = supplied \cup call.helpers.entries
        /\ count' = count + 1
        /\ UNCHANGED <<pc, tokenizeVars, extractVars, sharedVars, editorVars>>

\* interpolate(c, v, { helpers: h }): an engine of its own gets the helpers
\* and compiles.
InterpolateCreated ==
  \E c \in InterpolateTemplates, v \in VariableObjects, h \in HelperObjects :
    LET Returned(r) ==
          /\ Handlebars' = r.Handlebars
          /\ call' = [variables |-> v, helpers |-> h, returned |-> r.returned,
                      compiled |-> r.compiled, created |-> r.created, hbs |-> r.hbs]
    IN  /\ pc = "interpolate"
        /\ count < MaxCalls
        /\ content' = c
        /\ Returned(interpolate(c, v, h, Handlebars))
        /\ supplied' = supplied \cup call.helpers.entries
        /\ count' = count + 1
        /\ UNCHANGED <<pc, tokenizeVars, extractVars, sharedVars, editorVars>>

NextInterpolate ==
  \/ InterpolateNoVariables
  \/ InterpolateShared
  \/ InterpolateCreated

\* The templates of the calls on the shared scanner.
MaxSharedPieces == 1
SharedTemplates == Templates(RecoverPieces, MaxSharedPieces)

\* tokenize(c) after whatever calls came before.
SharedTokenize ==
  \E c \in SharedTemplates :
    LET Returned(r) ==
          /\ output' = r.output
          /\ lexer' = r.lx
    IN  /\ content' = c
        /\ found' = lexer
        /\ Returned(tokenizeOn(c, lexer))
        /\ pc' = "tokenized"
        /\ UNCHANGED <<interpolateVars, editorVars, lx, rawTokens, lexFailed,
                       normalized, annotated, classified, extractVars>>

\* extract(c) after whatever calls came before.
SharedExtract ==
  \E c \in SharedTemplates :
    LET Returned(r) ==
          /\ variables' = r.variables
          /\ rootVariables' = r.rootVariables
          /\ lexer' = r.lx
    IN  /\ content' = c
        /\ found' = lexer
        /\ Returned(extractOn(c, lexer))
        /\ pc' = "extracted"
        /\ UNCHANGED <<interpolateVars, editorVars, tokenizeVars, remaining, result,
                       expressions, iterations, exprIdx, blockStack>>

\* interpolate(c, variables) after whatever calls came before.
SharedInterpolate ==
  \E c \in SharedTemplates :
    /\ content' = c
    /\ found' = lexer
    /\ lexer' = compileOn(c, lexer)
    /\ pc' = "interpolated"
    /\ UNCHANGED <<interpolateVars, editorVars, tokenizeVars, extractVars>>

NextShared ==
  \/ SharedTokenize
  \/ SharedExtract
  \/ SharedInterpolate

(***************************************************************************)
(* The editor's autocomplete: buildOptions, updateAutocomplete and the     *)
(* event handlers                                                          *)
(***************************************************************************)
\* value.toLowerCase() on the letters of the model.
toLowerCase(value) == [i \in 1..Len(value) |-> IF value[i] = "A" THEN "a" ELSE value[i]]

getMatchType(value, filter) ==
  IF filter = <<>> THEN "prefix"
  ELSE IF toLowerCase(value) = toLowerCase(filter) THEN "exact"
  ELSE IF HasAt(toLowerCase(value), 0, toLowerCase(filter)) THEN "prefix"
  ELSE IF IndexFrom(toLowerCase(value), 0, toLowerCase(filter)) # -1 THEN "partial"
  ELSE "none"

\* The root variables the editor extracted from its value: a, aa, aaa, ...,
\* MaxVariables of them.
MaxVariables == 10

Repeat(c, n) == [i \in 1..n |-> c]

\* What addOption is called with when the filter has no dot, in the order the
\* final sort gives to options of one match type: variables, block-open,
\* block-close, each in alphabetical order.  if stands for the block helpers.
Candidates(isRaw) ==
  [i \in 1..MaxVariables |-> [value |-> Repeat("a", i), type |-> "variable"]]
  \o (IF isRaw THEN <<>>
      ELSE << [value |-> <<"#", "i", "f">>, type |-> "block-open"],
              [value |-> <<"/", "i", "f">>, type |-> "block-close"],
              [value |-> <<"e", "l", "s", "e">>, type |-> "block-close"] >>)

\* buildOptions for a filter without a dot: the candidates that match, exact
\* matches first, then prefix matches, then partial ones.
buildOptions(isRaw, filterText) ==
  LET Of(matchType) ==
        SelectSeq(Candidates(isRaw),
                  LAMBDA o : getMatchType(o.value, filterText) = matchType)
  IN  Of("exact") \o Of("prefix") \o Of("partial")

\* setAutocompleteState((prev) => ({ ...prev, isOpen: false }))
closeAutocomplete(prev) == [prev EXCEPT !.isOpen = FALSE]

\* updateAutocomplete that opens the list with the selection it finds.
updateAutocomplete_KeepsSelection(prev, change) ==
  LET Opened(options) ==
        IF Len(options) = 0 THEN closeAutocomplete(prev)
        ELSE [isOpen |-> TRUE, options |-> options,
              selectedIndex |-> prev.selectedIndex,
              filterText |-> change.filterText, isRaw |-> change.isRaw]
  IN  IF ~change.enabled \/ ~change.trigger THEN closeAutocomplete(prev)
      ELSE Opened(buildOptions(change.isRaw, change.filterText))

\* updateAutocomplete(text, cursorPos).  Of the text and the cursor the change
\* carries what the function derives from them: enabled (autocomplete and not
\* readOnly), trigger (the cursor is in no comment and no completed expression
\* and the trigger pattern matches before it), isRaw and filterText.
updateAutocomplete(prev, change) ==
  LET Opened(options) ==
        IF Len(options) = 0 THEN closeAutocomplete(prev)
        ELSE [isOpen |-> TRUE, options |-> options, selectedIndex |-> 0,
              filterText |-> change.filterText, isRaw |-> change.isRaw]
  IN  IF ~change.enabled \/ ~change.trigger THEN closeAutocomplete(prev)
      ELSE Opened(buildOptions(change.isRaw, change.filterText))

\* The filter texts the changes are made with.
FilterTexts ==
  { <<>>, <<"#">>, <<"/">>, <<"e">>, <<"f">>, <<"b">>, <<"A">> }
  \cup { Repeat("a", k) : k \in 1..(MaxVariables + 1) }

\* options[index] of the code: the option, or none past the end of the list.
OptionAt(options, index) ==
  IF index >= 0 /\ index < Len(options) THEN <<options[index + 1]>> ELSE <<>>

Minimum(a, b) == IF a <= b THEN a ELSE b
Maximum(a, b) == IF a >= b THEN a ELSE b

pageSize == 8

notEditor == <<content, pc, tokenizeVars, extractVars, interpolateVars, sharedVars>>

\* handleChange: the text changed.
Change ==
  \E enabled \in BOOLEAN, trigger \in BOOLEAN, isRaw \in BOOLEAN,
     filterText \in FilterTexts :
    /\ autocompleteState' =
         updateAutocomplete(autocompleteState,
                            [enabled |-> enabled, trigger |-> trigger,
                             isRaw |-> isRaw, filterText |-> filterText])
    /\ inserted' = <<>>
    /\ event' = "change"
    /\ UNCHANGED notEditor

\* handleKeyDown, Tab: with the list open the selected option is inserted and
\* insertOption closes the list; with the list closed the key indents.
KeyTab ==
  /\ IF /\ autocompleteState.isOpen
        /\ OptionAt(autocompleteState.options, autocompleteState.selectedIndex) # <<>>
       THEN /\ inserted' = OptionAt(autocompleteState.options,
                                    autocompleteState.selectedIndex)
            /\ autocompleteState' = closeAutocomplete(autocompleteState)
       ELSE /\ inserted' = <<>>
            /\ UNCHANGED autocompleteState
  /\ event' = "Tab"
  /\ UNCHANGED notEditor

\* handleKeyDown, Enter: nothing happens while the list is closed.
KeyEnter ==
  /\ IF /\ autocompleteState.isOpen
        /\ OptionAt(autocompleteState.options, autocompleteState.selectedIndex) # <<>>
       THEN /\ inserted' = OptionAt(autocompleteState.options,
                                    autocompleteState.selectedIndex)
            /\ autocompleteState' = closeAutocomplete(autocompleteState)
       ELSE /\ inserted' = <<>>
            /\ UNCHANGED autocompleteState
  /\ event' = "Enter"
  /\ UNCHANGED notEditor

KeyArrowDown ==
  /\ autocompleteState.isOpen
  /\ autocompleteState' =
       [autocompleteState EXCEPT
          !.selectedIndex = Minimum(autocompleteState.selectedIndex + 1,
                                    Len(autocompleteState.options) - 1)]
  /\ inserted' = <<>>
  /\ event' = "ArrowDown"
  /\ UNCHANGED notEditor

KeyArrowUp ==
  /\ autocompleteState.isOpen
  /\ autocompleteState' =
       [autocompleteState EXCEPT
          !.selectedIndex = Maximum(autocompleteState.selectedIndex - 1, 0)]
  /\ inserted' = <<>>
  /\ event' = "ArrowUp"
  /\ UNCHANGED notEditor

KeyHome ==
  /\ autocompleteState.isOpen
  /\ autocompleteState' = [autocompleteState EXCEPT !.selectedIndex = 0]
  /\ inserted' = <<>>
  /\ event' = "Home"
  /\ UNCHANGED notEditor

KeyEnd ==
  /\ autocompleteState.isOpen
  /\ autocompleteState' =
       [autocompleteState EXCEPT !.selectedIndex = Len(autocompleteState.options) - 1]
  /\ inserted' = <<>>
  /\ event' = "End"
  /\ UNCHANGED notEditor

KeyPageDown ==
  /\ autocompleteState.isOpen
  /\ autocompleteState' =
       [autocompleteState EXCEPT
          !.selectedIndex = Minimum(autocompleteState.selectedIndex + pageSize,
                                    Len(autocompleteState.options) - 1)]
  /\ inserted' = <<>>
  /\ event' = "PageDown"
  /\ UNCHANGED notEditor

KeyPageUp ==
  /\ autocompleteState.isOpen
  /\ autocompleteState' =
       [autocompleteState EXCEPT
          !.selectedIndex = Maximum(autocompleteState.selectedIndex - pageSize, 0)]
  /\ inserted' = <<>>
  /\ event' = "PageUp"
  /\ UNCHANGED notEditor

KeyEscape ==
  /\ autocompleteState.isOpen
  /\ autocompleteState' = closeAutocomplete(autocompleteState)
  /\ inserted' = <<>>
  /\ event' = "Escape"
  /\ UNCHANGED notEditor

\* handleKeyDown, ArrowLeft and ArrowRight: handleSelect closes the list when
\* the trigger pattern no longer matches before the cursor.
KeyArrowSide ==
  \E matches \in BOOLEAN :
    /\ autocompleteState.isOpen
    /\ autocompleteState' =
         IF matches THEN autocompleteState ELSE closeAutocomplete(autocompleteState)
    /\ inserted' = <<>>
    /\ event' = "ArrowSide"
    /\ UNCHANGED notEditor

\* renderOption.onMouseEnter on one of the options the open list shows.
Hover ==
  \E index \in 0..(Len(autocompleteState.options) - 1) :
    /\ autocompleteState.isOpen
    /\ autocompleteState' = [autocompleteState EXCEPT !.selectedIndex = index]
    /\ inserted' = <<>>
    /\ event' = "hover"
    /\ UNCHANGED notEditor

\* renderOption.onMouseDown on one of the options the open list shows.
Click ==
  \E index \in 0..(Len(autocompleteState.options) - 1) :
    /\ autocompleteState.isOpen
    /\ inserted' = <<autocompleteState.options[index + 1]>>
    /\ autocompleteState' = closeAutocomplete(autocompleteState)
    /\ event' = "click"
    /\ UNCHANGED notEditor

\* handleBlur: the list stays when the focus goes to the dropdown.
Blur ==
  \E toDropdown \in BOOLEAN :
    /\ autocompleteState' =
         IF toDropdown THEN autocompleteState ELSE closeAutocomplete(autocompleteState)
    /\ inserted' = <<>>
    /\ event' = "blur"
    /\ UNCHANGED notEditor

\* handleClickOutside and handleClickInside, registered while the list is open.
MouseDownOutside ==
  /\ autocompleteState.isOpen
  /\ autocompleteState' = closeAutocomplete(autocompleteState)
  /\ inserted' = <<>>
  /\ event' = "mousedown"
  /\ UNCHANGED notEditor

NextEditor ==
  \/ Change
  \/ KeyTab
  \/ KeyEnter
  \/ KeyArrowDown
  \/ KeyArrowUp
  \/ KeyHome
  \/ KeyEnd
  \/ KeyPageDown
  \/ KeyPageUp
  \/ KeyEscape
  \/ KeyArrowSide
  \/ Hover
  \/ Click
  \/ Blur
  \/ MouseDownOutside

SpecTokenize == InitTokenize /\ [][NextTokenize]_vars
SpecExtract == InitExtract /\ [][NextExtract]_vars
SpecInterpolate == InitInterpolate /\ [][NextInterpolate]_vars
SpecShared == InitShared /\ [][NextShared]_vars
SpecEditor == InitEditor /\ [][NextEditor]_vars

(***************************************************************************)
(* Properties                                                              *)
(***************************************************************************)
IsPrefixOf(a, b) == Len(a) <= Len(b) /\ SubSeq(b, 1, Len(a)) = a

\* The scanner failed in the segment just parsed.
SegmentFailed == pc = "parsed" /\ result.consumed # Len(remaining)

\* C1: each time parseSegment stops on a scanner failure, the next iteration
\* of parseExpressions runs on a strictly shorter remaining string or the
\* loop exits, so extract terminates.
C1_FailureShortensRemaining ==
  [][SegmentFailed => (pc' = "extract" \/ Len(remaining') < Len(remaining))]_vars

\* The raw token ranges are in increasing, non-overlapping order inside [0, n].
RawOrdered(raw, n) ==
  \A i \in 1..Len(raw) :
    /\ 0 <= raw[i].start
    /\ raw[i].start <= raw[i].end
    /\ raw[i].end <= n
    /\ i > 1 => raw[i - 1].end <= raw[i].start

\* The tokens out exactly partition [0, Len(s)) and carry the text they cover.
Partitions(out, s) ==
  /\ (out = <<>>) <=> (s = <<>>)
  /\ \A i \in 1..Len(out) :
       /\ out[i].start = IF i = 1 THEN 0 ELSE out[i - 1].end
       /\ out[i].start < out[i].end
       /\ out[i].value = Slice(s, out[i].start, out[i].end)
  /\ out # <<>> => out[Len(out)].end = Len(s)
  /\ Flatten([i \in 1..Len(out) |-> out[i].value]) = s

\* C2: for every input and every raw token stream the scanner produces for
\* it (ordered, non-overlapping, in range, possibly cut short by a failure),
\* the tokens tokenize returns exactly partition the input: the first starts
\* at 0, each starts where the previous ends, the last ends at the input's
\* length, none is empty, each value is the text of its range, and the
\* values concatenated give the input back.
C2_TokensPartitionInput ==
  (pc = "tokenized" /\ RawOrdered(rawTokens, Len(content)))
    => Partitions(output, content)

\* C2, witness: a call that returned after a scanner failure, with a token,
\* a gap and the uncovered end of the input in its result.
C2_Witness ==
  /\ pc = "tokenized"
  /\ lexFailed
  /\ RawOrdered(rawTokens, Len(content))
  /\ Len(rawTokens) >= 2
  /\ Len(output) > Len(rawTokens)
  /\ output[1].type # "text"
  /\ output[Len(output)].type = "text"

\* The offset the scanner's last token ends at, 0 when it returned none.
LastTokenEnd(raw) == IF raw = <<>> THEN 0 ELSE raw[Len(raw)].end

Unconsumed(rest) == SliceFrom(rest, LastTokenEnd(lexerTokenize(rest)))

FirstOpen(str) == IndexFrom(str, 0, <<"{", "{">>)

\* C4: when the scanner fails partway, every expression collected so far is
\* kept and parsing resumes at the first "{{" of the unconsumed remainder (and
\* stops only when the unconsumed remainder holds none), so the well-formed
\* expressions after the failure point are still collected.
C4_ResumesAtNextOpen ==
  [][/\ IsPrefixOf(expressions, expressions')
     /\ SegmentFailed =>
          /\ (pc' = "parse") <=> (FirstOpen(Unconsumed(remaining)) # -1)
          /\ (pc' = "parse") =>
               remaining' = SliceFrom(Unconsumed(remaining),
                                      FirstOpen(Unconsumed(remaining)))]_vars

DistinctPaths(vs) == \A i, j \in 1..Len(vs) : vs[i].path = vs[j].path => i = j

\* C5: the paths of the variables are pairwise distinct, and an entry once
\* recorded keeps its content and its position: a later extraction of the
\* same path changes nothing.
C5_FirstExtractionWins ==
  [][DistinctPaths(variables') /\ IsPrefixOf(variables, variables')]_vars

\* C5, witness: a value output of a path followed by a block tag whose
\* argument is the same path; the entry of the value output is the one kept.
C5_Witness ==
  /\ pc = "extracted"
  /\ Len(expressions) = 2
  /\ expressions[1].type = "mustache"
  /\ expressions[2].type = "block"
  /\ Len(expressions[1].tokens) = 1
  /\ Len(expressions[2].tokens) = 2
  /\ expressions[2].tokens[1].text = EACH
  /\ expressions[1].tokens[1].text = expressions[2].tokens[2].text
  /\ Len(variables) = 1
  /\ variables[1].type = "simple"
  /\ variables[1].blockType = Undefined

\* The retained variables that have no context.
Contextless(vs) == SelectSeq(vs, LAMBDA v : v.context = Undefined)

FirstCarrier(vs, name) == MinOf({k \in 1..Len(vs) : vs[k].name = name})

\* C6: rootVariables holds exactly the names of the retained variables that
\* have no context, each once, ordered by the first such variable that
\* carries the name; a name carried only by variables with a context is not
\* in it.
C6_RootVariables ==
  pc = "extracted" =>
    /\ \A i \in 1..Len(rootVariables) :
         \E k \in 1..Len(Contextless(variables)) :
           Contextless(variables)[k].name = rootVariables[i]
    /\ \A k \in 1..Len(Contextless(variables)) :
         \E i \in 1..Len(rootVariables) :
           rootVariables[i] = Contextless(variables)[k].name
    /\ \A i, j \in 1..Len(rootVariables) :
         /\ rootVariables[i] = rootVariables[j] => i = j
         /\ i < j => FirstCarrier(Contextless(variables), rootVariables[i])
                       < FirstCarrier(Contextless(variables), rootVariables[j])

\* C6, witness: a result where a name is carried only by a variable with a
\* context, and another name by two variables without one.
C6_Witness ==
  /\ pc = "extracted"
  /\ \E k \in 1..Len(variables) :
       /\ variables[k].context # Undefined
       /\ \A i \in 1..Len(rootVariables) : rootVariables[i] # variables[k].name
  /\ Len(Contextless(variables)) > Len(rootVariables)

\* What a frame adds to the path of a variable recorded under it.
Contribution(frame) ==
  IF frame.context = <<>> THEN <<>>
  ELSE IF frame.helper = <<"e", "a", "c", "h">> THEN frame.context \o <<"[", "]", ".">>
  ELSE IF frame.helper = <<"w", "i", "t", "h">> THEN frame.context \o <<".">>
  ELSE <<>>

\* The prefix the open frames give, outermost first.
RECURSIVE PathPrefix(_)
PathPrefix(stack) ==
  IF stack = <<>> THEN <<>> ELSE Contribution(Head(stack)) \o PathPrefix(Tail(stack))

\* The dotted paths that start at some token of an expression.
OwnPaths(tokens) == {collectPath(tokens, i) : i \in 0..(Len(tokens) - 1)} \ {<<>>}

\* The indices of the variables the step records.
Recorded == (Len(variables) + 1)..Len(variables')

\* C7: the path recorded for a variable is the prefix of the frames open at
\* its expression, outermost first (c[]. for an each frame with context c,
\* c. for a with frame, nothing for any other frame), followed by its own
\* dotted path; the context of an each/with frame is the root segment of the
\* block's argument path, the first identifier after the helper name.
C7_PathIsPrefixPlusOwnPath ==
  [][/\ \A k \in Recorded :
          \E p \in OwnPaths(expressions[exprIdx].tokens) :
            /\ variables'[k].name = p[1]
            /\ variables'[k].path = PathPrefix(blockStack) \o JoinDots(p)
     /\ Len(blockStack') > Len(blockStack) =>
          LET tokens == expressions[exprIdx].tokens
              frame == blockStack'[Len(blockStack')]
          IN  /\ frame.helper = TextAt(tokens, 0)
              /\ frame.context # <<>> =>
                   /\ frame.helper \in {EACH, WITH_}
                   /\ \E i \in 2..Len(tokens) :
                        /\ tokens[i].name = "ID"
                        /\ \A j \in 2..(i - 1) : tokens[j].name # "ID"
                        /\ frame.context = tokens[i].text]_vars

\* C7, witness: a value output recorded inside a with block inside an each
\* block, its path carrying both frames' parts.
C7_Witness ==
  /\ pc = "extract"
  /\ Len(blockStack) = 2
  /\ blockStack[1] = [helper |-> EACH, context |-> <<"a">>]
  /\ blockStack[2] = [helper |-> WITH_, context |-> <<"b">>]
  /\ \E k \in 1..Len(variables) :
       /\ variables[k].path = <<"a", "[", "]", ".", "b", ".", "b", ".", "a">>
       /\ variables[k].name = <<"b">>

\* The contexts of the open each/with frames that have one, outermost first.
RECURSIVE OpenContexts(_)
OpenContexts(stack) ==
  IF stack = <<>> THEN <<>>
  ELSE (IF Contribution(Head(stack)) # <<>> THEN <<Head(stack).context>> ELSE <<>>)
       \o OpenContexts(Tail(stack))

RECURSIVE OpenBlocks(_, _, _)
OpenBlocks(tokens, i, d) ==
  IF i > Len(tokens) THEN d
  ELSE IF tokens[i].name \in {"OPEN_BLOCK", "OPEN_INVERSE"}
    THEN OpenBlocks(tokens, i + 1, d + 1)
  ELSE IF tokens[i].name = "OPEN_ENDBLOCK"
    THEN OpenBlocks(tokens, i + 1, IF d > 0 THEN d - 1 ELSE 0)
  ELSE OpenBlocks(tokens, i + 1, d)

\* C10: the block stack holds exactly one frame per block opened and not yet
\* closed, an end tag met with an empty stack leaving it empty; so after a
\* template whose block-open tags are all closed, {{else}} and {{else if}}
\* sections included, the stack is empty.  Stated for the templates the
\* scanner reads to their end, once the walk is over.
C10_StackMatchesOpenBlocks ==
  (pc = "extracted" /\ iterations = 1 /\ result.consumed = Len(content))
    => Len(blockStack) = OpenBlocks(LexAll(content).tokens, 1, 0)


\* The helpers whose block-open tag gives its path argument a block type.
BlockTypes == {IF_, UNLESS, EACH, WITH_}

\* C11: a recorded variable has type block exactly when its blockType is set,
\* which happens exactly when it is recorded as the path argument of an
\* if/unless/each/with block-open tag, the blockType being that helper's name;
\* otherwise its type is nested exactly when its path has a "." or its context
\* is set, and simple otherwise.
C11_BlockTypeFromBlockHelpers ==
  [][\A k \in Recorded :
       LET v == variables'[k]
           expr == expressions[exprIdx]
       IN  /\ (v.type = "block") <=> (v.blockType # Undefined)
           /\ (v.blockType # Undefined) <=>
                /\ expr.type = "block"
                /\ expr.tokens[1].text \in BlockTypes
                /\ expr.tokens[2].name # "OPEN_SEXPR"
           /\ v.blockType # Undefined => v.blockType = expr.tokens[1].text
           /\ v.blockType = Undefined =>
                v.type = IF Includes(v.path, ".") \/ v.context # Undefined
                           THEN "nested" ELSE "simple"]_vars

\* The 1-based indices of the identifiers of an expression that do not
\* immediately follow the data sigil.
PlainIds(tokens) ==
  {i \in 1..Len(tokens) :
     tokens[i].name = "ID" /\ (i = 1 \/ tokens[i - 1].name # "DATA")}

\* C12: extract never records a variable named after an identifier that
\* immediately follows the data sigil @, in a value output, a helper or
\* partial argument or a block-open argument: the name of every recorded
\* variable is that of an identifier of the expression not preceded by @.
C12_NoDataNames ==
  [][\A k \in Recorded :
       \E i \in PlainIds(expressions[exprIdx].tokens) :
         expressions[exprIdx].tokens[i].text = variables'[k].name]_vars

\* The kinds of token that may follow the helper name of a value output.
FollowingKinds ==
  {"ID", "STRING", "NUMBER", "BOOLEAN", "NULL", "UNDEFINED", "DATA", "OPEN_SEXPR"}

\* C13: in a value output whose leading path is followed by one more token
\* (identifier, string, number, boolean, null/undefined literal, data sigil,
\* subexpression or hash pair) the leading path, the helper name, is never
\* recorded: every variable the step records is a path that starts after it.
C13_HelperNameNotRecorded ==
  [][\A k \in Recorded :
       LET tokens == expressions[exprIdx].tokens
           leading == collectPath(tokens, 0)
           endIdx == Len(leading) * 2 - 1
       IN  ( /\ expressions[exprIdx].type = "mustache"
             /\ Len(leading) > 0
             /\ NameAt(tokens, endIdx) \in FollowingKinds ) =>
           \E i \in endIdx..(Len(tokens) - 1) :
             /\ collectPath(tokens, i) # <<>>
             /\ variables'[k].name = collectPath(tokens, i)[1]
             /\ variables'[k].path =
                  PathPrefix(blockStack) \o JoinDots(collectPath(tokens, i))]_vars

\* The names an expression binds as block parameters: the identifiers of
\* its list as |name ...|.
BlockParams(tokens) ==
  {tokens[i].text : i \in
     {i \in 1..Len(tokens) :
        /\ tokens[i].name = "ID"
        /\ \E j \in 1..(i - 1) :
             /\ tokens[j].name = "OPEN_BLOCK_PARAMS"
             /\ \A m \in (j + 1)..(i - 1) : tokens[m].name = "ID"}}

\* The names the identifiers of an expression carry.
IdTexts(tokens) == {tokens[i].text : i \in {i \in 1..Len(tokens) : tokens[i].name = "ID"}}

\* The block-open tags whose block is still open at the end of the template
\* and before which name does not occur.
BindingTags(name) ==
  {e \in 1..Len(expressions) :
     /\ expressions[e].type = "block"
     /\ name \in BlockParams(expressions[e].tokens)
     /\ \A f \in 1..(e - 1) : name \notin IdTexts(expressions[f].tokens)
     /\ \A f \in (e + 1)..Len(expressions) : expressions[f].type # "endblock"}

\* C14: a name bound as a block parameter by a block-open tag, and used only
\* in that tag and inside its block, is never in rootVariables, whatever the
\* block-open: each/with given a path or a subexpression, if/unless, or a
\* custom block helper.
C14_BlockParamsNotRoot ==
  pc = "extracted" =>
    \A i \in 1..Len(rootVariables) : BindingTags(rootVariables[i]) = {}

\* A hash key: an identifier immediately followed by the hash-equals token.
IsHashKey(tokens, i) ==
  /\ tokens[i].name = "ID"
  /\ i < Len(tokens)
  /\ tokens[i + 1].name = "EQUALS"

\* n identifiers from the 1-based index i on, separated by path separators,
\* none of them a hash key.
IsRun(tokens, i, n) ==
  /\ i + 2 * (n - 1) <= Len(tokens)
  /\ \A m \in 1..n :
       /\ tokens[i + 2 * (m - 1)].name = "ID"
       /\ ~IsHashKey(tokens, i + 2 * (m - 1))
  /\ \A m \in 1..(n - 1) : tokens[i + 2 * m - 1].name = "SEP"

Run(tokens, i, n) == [m \in 1..n |-> tokens[i + 2 * (m - 1)].text]

\* The longest run from i on, the full dotted path that starts there.
FullRun(tokens, i) ==
  Run(tokens, i, CHOOSE n \in 1..Len(tokens) : IsRun(tokens, i, n) /\ ~IsRun(tokens, i, n + 1))

\* The 0-based index from which the arguments of an expression are
\* extracted, the number of its tokens when they are not.
ArgumentsFrom(expr) ==
  LET tokens == expr.tokens
      path == collectPath(tokens, 0)
  IN  IF expr.type = "mustache"
        THEN IF Len(tokens) = 0 \/ NameAt(tokens, 0) = "DATA" THEN Len(tokens)
             ELSE IF isBuiltIn(TextAt(tokens, 0)) THEN 1
             ELSE IF Len(path) > 0 /\ isArgumentToken(tokens, Len(path) * 2 - 1)
               THEN Len(path) * 2 - 1
             ELSE Len(tokens)
      ELSE IF expr.type = "partial" THEN PartialArgs(tokens, 1)
      ELSE IF /\ expr.type = "block"
              /\ TextAt(tokens, 0) \in BUILT_IN_HELPERS
              /\ NameAt(tokens, 1) = "OPEN_SEXPR"
        THEN 1
      ELSE Len(tokens)

\* The 1-based indices of the hash values among the extracted arguments: an
\* identifier path right after a hash-equals token, not headed by a built-in.
HashValues(expr) ==
  {i \in (ArgumentsFrom(expr) + 2)..Len(expr.tokens) :
     /\ expr.tokens[i - 1].name = "EQUALS"
     /\ IsRun(expr.tokens, i, 1)
     /\ ~isBuiltIn(expr.tokens[i].text)}

\* C15: a hash key is never recorded as a variable and never is a segment of
\* a recorded path, and the identifier path after the hash-equals token is
\* recorded with its full dotted path.
C15_HashKeysSkippedValuesRecorded ==
  [][pc = "extract" /\ pc' = "extract" =>
       LET expr == expressions[exprIdx]
       IN  /\ \A k \in Recorded :
                \E i \in 1..Len(expr.tokens), n \in 1..Len(expr.tokens) :
                  /\ IsRun(expr.tokens, i, n)
                  /\ variables'[k].name = expr.tokens[i].text
                  /\ variables'[k].path =
                       PathPrefix(blockStack) \o JoinDots(Run(expr.tokens, i, n))
           /\ \A i \in HashValues(expr) :
                \E k \in 1..Len(variables') :
                  /\ variables'[k].name = expr.tokens[i].text
                  /\ variables'[k].path =
                       PathPrefix(blockStack) \o JoinDots(FullRun(expr.tokens, i))]_vars

\* C15, witness: the helper call h k=b.a has been extracted, the value b.a
\* is recorded and the key k is not.
C15_Witness ==
  /\ pc = "extract"
  /\ exprIdx = 2
  /\ expressions[1].type = "mustache"
  /\ \E i \in 1..Len(expressions[1].tokens) : IsHashKey(expressions[1].tokens, i)
  /\ \E k \in 1..Len(variables) : variables[k].path = <<"b", ".", "a">>
  /\ \A k \in 1..Len(variables) : variables[k].name # <<"k">>

\* The 1-based indices at which an argument path of an expression starts: an
\* identifier that is no hash key and no built-in name and follows neither a
\* path separator, nor the data sigil, nor the opening of a subexpression.
ArgumentStarts(tokens) ==
  {i \in 2..Len(tokens) :
     /\ IsRun(tokens, i, 1)
     /\ tokens[i].text \notin BUILT_IN_HELPERS
     /\ tokens[i - 1].name \notin {"SEP", "DATA", "OPEN_SEXPR"}}

C17_OnlyPathArgumentScopes ==
  [][Len(blockStack') > Len(blockStack) =>
       LET tokens == expressions[exprIdx].tokens
           frame == blockStack'[Len(blockStack')]
       IN  /\ frame.context # <<>> =>
                /\ frame.helper \in CONTEXT_HELPERS
                /\ NameAt(tokens, 1) = "ID"
                /\ frame.context = TextAt(tokens, 1)
           /\ (frame.helper \notin CONTEXT_HELPERS \/ NameAt(tokens, 1) = "OPEN_SEXPR") =>
                frame.context = <<>>
           /\ frame.context = <<>> =>
                computeContextPath(blockStack') = computeContextPath(blockStack)]_vars

\* C18: a call of interpolate with options.helpers registers them on an
\* engine created for that call, which has exactly those helpers; no call
\* changes the helpers of the shared engine; and a call without
\* options.helpers runs on the shared engine as it was, so that no helper an
\* earlier call was given is available to it unless the shared engine had it.
C18_HelpersStayWithTheirCall ==
  [][/\ Handlebars' = Handlebars
     /\ (call'.compiled /\ call'.helpers.given) =>
          /\ call'.created
          /\ call'.hbs = call'.helpers.entries
     /\ (call'.compiled /\ ~call'.helpers.given) =>
          /\ ~call'.created
          /\ call'.hbs = Handlebars
          /\ \A h \in supplied' \ Handlebars : h \notin call'.hbs]_vars

\* C18, witness: after a call that was given the helper f, a call of
\* {{f a}} without helpers, on a shared engine without f, finds no helper f.
C18_Witness ==
  /\ pc = "interpolate"
  /\ count >= 2
  /\ Handlebars = {}
  /\ [name |-> <<"f">>, fn |-> "wrap"] \in supplied
  /\ call.compiled
  /\ ~call.helpers.given
  /\ content = <<"{", "{", "f", " ", "a", "}", "}">>
  /\ call.returned = Thrown

\* C19: a call of interpolate without the variables argument returns its
\* content unchanged, whatever the content and the helpers, and no engine is
\* created or compiles the template.
C19_NoVariablesReturnsContent ==
  (pc = "interpolate" /\ count > 0 /\ ~call.variables.given) =>
    /\ call.returned = content
    /\ ~call.compiled
    /\ ~call.created

\* C19, witness: a call without variables, with helpers, of a template with
\* an unterminated comment has returned the template.
C19_Witness ==
  /\ pc = "interpolate"
  /\ count > 0
  /\ ~call.variables.given
  /\ call.helpers.given
  /\ content = <<"t", "{", "{", "!", "-", "-">>
  /\ call.returned = content

\* The identifier at index i stands inside a block-parameter list: an
\* as | before it has not been closed by a |.
InBlockParams(i) ==
  \E j \in 1..(i - 1) :
    /\ normalized[j].type = "OPEN_BLOCK_PARAMS"
    /\ \A m \in (j + 1)..(i - 1) : normalized[m].type # "CLOSE_BLOCK_PARAMS"

IsThis(i) == normalized[i].text = <<"t", "h", "i", "s">>

NextIsEquals(i) == TypeAt(normalized, i + 1) = "EQUALS"

PrevIs(i, type) == TypeAt(normalized, i - 1) = type

\* The identifiers of the classified tokens.
Identifiers == {i \in 1..Len(classified) : normalized[i].type = "ID"}

Opener(i) ==
  LET boundaries == {j \in 1..(i - 1) :
                       normalized[j].type \in EXPRESSION_OPENERS \cup EXPRESSION_CLOSERS}
  IN  IF boundaries = {} THEN 0
      ELSE IF normalized[MaxOf(boundaries)].type \in EXPRESSION_OPENERS
        THEN MaxOf(boundaries)
      ELSE 0

\* The identifiers that no rule before the contextual ones matches.
Contextual ==
  {i \in Identifiers :
     /\ ~IsThis(i) /\ ~InBlockParams(i) /\ ~NextIsEquals(i)
     /\ ~PrevIs(i, "EQUALS") /\ ~PrevIs(i, "DATA") /\ ~PrevIs(i, "SEP")
     /\ Opener(i) > 0}

\* The tokens that start an argument.
ArgumentStarting ==
  {"ID", "STRING", "NUMBER", "BOOLEAN", "NULL", "UNDEFINED", "DATA", "OPEN_SEXPR"}

FirstIdentifier(i) == \A j \in (Opener(i) + 1)..(i - 1) : normalized[j].type # "ID"

\* The category of a contextual identifier of a block or partial expression,
\* "none" in a value output.
BlockOrPartialCategory(i) ==
  LET opener == normalized[Opener(i)].type
  IN  IF opener \in BLOCK_OPENERS
        THEN IF i = Opener(i) + 1 THEN "block-keyword" ELSE "helper-arg"
      ELSE IF opener \in PARTIAL_OPENERS
        THEN IF i = Opener(i) + 1 THEN "helper" ELSE "helper-arg"
      ELSE "none"

\* The category of the identifier that heads a value output.
HeadCategory(i) ==
  IF TypeAt(normalized, i + 1) \in ArgumentStarting THEN "helper" ELSE "variable"

\* The category of an identifier of a value output that does not head it.
ArgumentCategory(i) == IF PrevIs(i, "OPEN_SEXPR") THEN "helper" ELSE "helper-arg"

\* C21: as claimed; in a value output the first identifier is helper exactly
\* when an argument-starting token follows it and variable otherwise, and
\* every identifier after the first is helper-arg, or helper right after a
\* subexpression-open paren.
C21_FirstIdentifierHeads ==
  \A i \in Contextual :
    classified[i].highlightType =
      IF BlockOrPartialCategory(i) # "none" THEN BlockOrPartialCategory(i)
      ELSE IF FirstIdentifier(i) THEN HeadCategory(i)
      ELSE ArgumentCategory(i)

\* C21, amended: in a block-open or block-close expression the identifier
\* directly after the opening delimiter is block-keyword and every other one
\* helper-arg; in a partial the one directly after the opener is helper and
\* every other one helper-arg; in a value output the identifier directly
\* after the opening delimiter is helper exactly when an argument-starting
\* token follows it and variable otherwise, and every other identifier is
\* helper-arg, or helper right after a subexpression-open paren.
C21_IdentifierAfterOpenerHeads ==
  \A i \in Contextual :
    classified[i].highlightType =
      IF BlockOrPartialCategory(i) # "none" THEN BlockOrPartialCategory(i)
      ELSE IF i = Opener(i) + 1 THEN HeadCategory(i)
      ELSE ArgumentCategory(i)

\* C21, witness: the first identifier of a value output follows a number
\* and is classified helper-arg.
C21_Witness ==
  \E i \in Contextual :
    /\ normalized[Opener(i)].type \in MUSTACHE_OPENERS
    /\ FirstIdentifier(i)
    /\ PrevIs(i, "NUMBER")
    /\ classified[i].highlightType = "helper-arg"

\* The root identifier of the dotted path the identifier at index i belongs
\* to: i itself when no path separator precedes it, 0 when the path has no
\* identifier at its head.
RECURSIVE PathRoot(_)
PathRoot(i) ==
  IF ~PrevIs(i, "SEP") THEN i
  ELSE IF TypeAt(normalized, i - 2) = "ID" THEN PathRoot(i - 2)
  ELSE 0

\* The identifiers that continue a dotted path headed by an identifier.
Continuations == {i \in Identifiers : PrevIs(i, "SEP") /\ PathRoot(i) > 0}

\* C22: an identifier that continues a dotted path carries the
\* pathRootAfterHelper value of the root identifier of its own path, whatever
\* the length of the path, also when the root follows the data sigil and
\* whatever expressions precede; so a continuation that reaches the
\* path-separator rule is helper-arg exactly when its root came after a
\* helper and variable-path otherwise.
C22_ContinuationInheritsRoot ==
  pc \in {"classify", "build", "tokenized"} =>
    \A i \in {i \in Continuations : i <= Len(annotated)} :
      /\ annotated[i].context.pathRootAfterHelper
           = annotated[PathRoot(i)].context.pathRootAfterHelper
      /\ ( /\ i <= Len(classified)
           /\ ~IsThis(i) /\ ~InBlockParams(i) /\ ~NextIsEquals(i) ) =>
           classified[i].highlightType =
             IF annotated[PathRoot(i)].context.pathRootAfterHelper
               THEN "helper-arg" ELSE "variable-path"

\* The returned tokens that cover exactly the range start..end.
Emitted(start, end) == {k \in 1..Len(output) : output[k].start = start /\ output[k].end = end}

\* A data sigil directly followed, without a gap, by an identifier.
SigilWithName(i) ==
  /\ normalized[i].type = "DATA"
  /\ TypeAt(normalized, i + 1) = "ID"
  /\ normalized[i + 1].start = normalized[i].end

\* The range start..end holds text of the content: what stage 5 emits for it
\* has a value and passes the final filter.
HasText(start, end) == Slice(content, start, end) # <<>>

\* C23: a data sigil whose end is the start of the identifier after it is
\* returned with it as one data-var token over both ranges, and neither on
\* its own; a data sigil without such an identifier is returned alone as
\* data-var; every other token with a text is returned once, with its own
\* range and category.
C23_DataSigilMergedWithName ==
  pc = "tokenized" =>
    \A i \in 1..Len(classified) :
      LET token == normalized[i]
      IN  IF SigilWithName(i)
            THEN /\ HasText(token.start, normalized[i + 1].end) =>
                      \E k \in 1..Len(output) :
                        /\ Emitted(token.start, normalized[i + 1].end) = {k}
                        /\ output[k].type = "data-var"
                 /\ Emitted(token.start, token.end) = {}
                 /\ Emitted(normalized[i + 1].start, normalized[i + 1].end) = {}
          ELSE IF i > 1 /\ SigilWithName(i - 1) THEN TRUE
          ELSE IF HasText(token.start, token.end)
            THEN \E k \in 1..Len(output) :
                   /\ Emitted(token.start, token.end) = {k}
                   /\ output[k].type = IF token.type = "DATA" THEN "data-var"
                                       ELSE classified[i].highlightType
          ELSE TRUE

\* C23, witness: the returned tokens of a template with a sigil and its name
\* merged, and with a sigil that stands alone.
C23_Witness ==
  /\ pc = "tokenized"
  /\ \E i \in 1..Len(classified) : SigilWithName(i)
  /\ \E i \in 1..Len(classified) : normalized[i].type = "DATA" /\ ~SigilWithName(i)
  /\ \E k \in 1..Len(output) : output[k].type = "data-var" /\ Len(output[k].value) = 2

\* C24: tokenize(s) and extract(s) depend only on s: whatever state the calls
\* before it left the shared scanner in, a call of tokenize returns what it
\* returns on a fresh scanner, and a call of extract returns the variables
\* and rootVariables it returns on a fresh scanner.
C24_ResultsDependOnlyOnContent ==
  [][/\ pc' = "tokenized" => output' = tokenize(content')
     /\ pc' = "extracted" =>
           LET Same(fresh) ==
                 /\ variables' = fresh.variables
                 /\ rootVariables' = fresh.rootVariables
           IN  Same(extractOn(content', SetInput))]_vars

\* A call of tokenize or extract has returned expressions' worth of results
\* on a scanner that the call before it left inside a comment, an expression
\* or a raw block.
C24_Witness ==
  /\ pc \in {"tokenized", "extracted"}
  /\ TopState(found.stack) \in {"com", "mu", "raw"}
  /\ found.pos > 0
  /\ content # <<>>
  /\ pc = "tokenized" => output # <<>>
  /\ pc = "extracted" => variables # <<>>
\* C25: in the annotate pass isInBlockParams is true for a token only if,
\* inside the token's own expression, a block-parameter opener precedes it (or
\* is the token) with no block-parameter closer in between; a list left
\* unclosed in one expression does not reach the tokens of later expressions.
C25_BlockParamsEndWithExpression ==
  \A i \in 1..Len(annotated) :
    annotated[i].context.isInBlockParams =>
      \E j \in 1..i :
        /\ annotated[j].type = "OPEN_BLOCK_PARAMS"
        /\ \A m \in (j + 1)..i :
              /\ annotated[m].type # "CLOSE_BLOCK_PARAMS"
              /\ annotated[m].type \notin EXPRESSION_OPENERS
        /\ \A m \in (j + 1)..(i - 1) : annotated[m].type \notin EXPRESSION_CLOSERS
\* C26: parseSegment emits an expression only at a closing delimiter that
\* closes a currently open expression, with the kind set by that
\* expression's own opening delimiter: the expressions of a segment are, in
\* order, those of the closing delimiters whose nearest delimiter before
\* them is an opening one, so a closing delimiter that arrives while no
\* expression is open emits nothing.
C26_ExpressionsCloseTheirOwnOpener ==
  LET Holds(tokens) ==
        LET Delimiter(i) ==
              \/ OpenedType(tokens[i].name) # "none"
              \/ tokens[i].name \in {"CLOSE", "CLOSE_UNESCAPED"}
            Before(c) == {j \in 1..(c - 1) : Delimiter(j)}
            Closing ==
              {c \in 1..Len(tokens) :
                 /\ tokens[c].name \in {"CLOSE", "CLOSE_UNESCAPED"}
                 /\ Before(c) # {}
                 /\ OpenedType(tokens[MaxOf(Before(c))].name) # "none"}
            Rank(c) == Cardinality({d \in Closing : d <= c})
        IN  /\ Len(result.expressions) = Cardinality(Closing)
            /\ \A c \in Closing :
                  result.expressions[Rank(c)].type
                    = OpenedType(tokens[MaxOf(Before(c))].name)
  IN  pc = "parsed" => Holds(LexAll(remaining).tokens)
\* C27: when the scanner fails, consumed is the absolute offset within the
\* segment of the end of the last token lexed (0 when there is none), also
\* when the segment spans several lines.
C27_ConsumedIsOffsetOfLastToken ==
  LET Holds(lexed) ==
        lexed.failed =>
          result.consumed =
            IF lexed.tokens = <<>> THEN 0 ELSE lexed.tokens[Len(lexed.tokens)].offset
  IN  pc = "parsed" => Holds(LexAll(remaining))
\* The texts that are separators, not identifiers.
SeparatorTexts == { <<".">>, <<"=">> }

\* C28: every name and every segment of every path returned by extract is
\* the text of a real identifier, never . or =: each variable a step records
\* has a name other than . and =, and its path is the prefix of the open
\* frames followed by a dotted path of the expression none of whose segments
\* is . or =.
C28_NamesAreIdentifiers ==
  [][\A k \in Recorded :
       /\ variables'[k].name \notin SeparatorTexts
       /\ \E p \in OwnPaths(expressions[exprIdx].tokens) :
            /\ variables'[k].path = PathPrefix(blockStack) \o JoinDots(p)
            /\ \A n \in 1..Len(p) : p[n] \notin SeparatorTexts]_vars
C30_OpenListHasValidSelection ==
  /\ [](autocompleteState.isOpen =>
          /\ Len(autocompleteState.options) > 0
          /\ 0 <= autocompleteState.selectedIndex
          /\ autocompleteState.selectedIndex < Len(autocompleteState.options))
  /\ [][/\ (event' \in {"Enter", "Tab"} /\ autocompleteState.isOpen) =>
             /\ autocompleteState.selectedIndex \in
                  0..(Len(autocompleteState.options) - 1)
             /\ inserted' =
                  <<autocompleteState.options[autocompleteState.selectedIndex + 1]>>
        /\ (autocompleteState'.isOpen /\ (event' = "change" \/ ~autocompleteState.isOpen)) =>
             autocompleteState'.selectedIndex = 0]_vars

\* C30, witness: Enter inserted the selected option of a list that had been
\* paged down and then reopened with a shorter list and moved again.
C30_Witness ==
  /\ event = "Enter"
  /\ ~autocompleteState.isOpen
  /\ Len(autocompleteState.options) \in 2..pageSize
  /\ autocompleteState.selectedIndex = Len(autocompleteState.options) - 1
  /\ inserted = <<autocompleteState.options[Len(autocompleteState.options)]>>
=============================================================================
